---- MODULE Spec2Model ----
(***************************************************************************)
(* Food product health advisor: the tools of PRODUCT_AGENT/tools.py        *)
(* (openfoodfacts_lookup, classify_nova, compute_health_score,             *)
(* suggest_alternatives), their variants in the root agent's tools.py, and *)
(* the pipeline of the Streamlit apps that runs them in turn.              *)
(*                                                                         *)
(* Representation.  A Python str is the sequence of its characters, each   *)
(* character a one-letter TLA+ string; Spell gives the characters of every *)
(* literal the code uses.  None is NoneStr for a str or a list and NoneNum *)
(* for a number.  A float is an exact binary fraction: nutrient inputs are *)
(* multiples of 1/NutrientUnit gram and the running score is a multiple of *)
(* 1/ScoreUnit, so that on these inputs every float operation of the code  *)
(* is exact and round() is the only rounding.  A dict is a function from   *)
(* its keys, None being NoneMap where a dict is expected.  The upstream    *)
(* source is an input: each request is answered by one of a set of         *)
(* responses, and a call that can raise gives Return(value) or Raise(exc). *)
(* The dict st.session_state.analyzed_products of streamlit_app.py is the  *)
(* sequence of its items, in the order of their insertion.                 *)
(***************************************************************************)
EXTENDS Integers, Sequences, FiniteSets, TLC

VARIABLES call, result, lookup, net, run, analyzed_products

vars == <<call, result, lookup, net, run, analyzed_products>>

---------------------------------------------------------------------------
(* Strings *)

\* The characters of each string literal
Spell ==
        ("casein" :> <<"c", "a", "s", "e", "i", "n">>)
     @@ ("lactose" :> <<"l", "a", "c", "t", "o", "s", "e">>)
     @@ ("whey" :> <<"w", "h", "e", "y">>)
     @@ ("gluten" :> <<"g", "l", "u", "t", "e", "n">>)
     @@ ("hydrogenated oil" :> <<"h", "y", "d", "r", "o", "g", "e", "n", "a", "t", "e", "d", " ", "o", "i", "l">>)
     @@ ("interesterified oil" :> <<"i", "n", "t", "e", "r", "e", "s", "t", "e", "r", "i", "f", "i", "e", "d", " ", "o", "i", "l">>)
     @@ ("hydrolysed protein" :> <<"h", "y", "d", "r", "o", "l", "y", "s", "e", "d", " ", "p", "r", "o", "t", "e", "i", "n">>)
     @@ ("soy protein isolate" :> <<"s", "o", "y", " ", "p", "r", "o", "t", "e", "i", "n", " ", "i", "s", "o", "l", "a", "t", "e">>)
     @@ ("maltodextrin" :> <<"m", "a", "l", "t", "o", "d", "e", "x", "t", "r", "i", "n">>)
     @@ ("invert sugar" :> <<"i", "n", "v", "e", "r", "t", " ", "s", "u", "g", "a", "r">>)
     @@ ("high fructose corn syrup" :> <<"h", "i", "g", "h", " ", "f", "r", "u", "c", "t", "o", "s", "e", " ", "c", "o", "r", "n", " ", "s", "y", "r", "u", "p">>)
     @@ ("high-fructose corn syrup" :> <<"h", "i", "g", "h", "-", "f", "r", "u", "c", "t", "o", "s", "e", " ", "c", "o", "r", "n", " ", "s", "y", "r", "u", "p">>)
     @@ ("dye" :> <<"d", "y", "e">>)
     @@ ("colour stabiliser" :> <<"c", "o", "l", "o", "u", "r", " ", "s", "t", "a", "b", "i", "l", "i", "s", "e", "r">>)
     @@ ("color stabilizer" :> <<"c", "o", "l", "o", "r", " ", "s", "t", "a", "b", "i", "l", "i", "z", "e", "r">>)
     @@ ("flavour enhancer" :> <<"f", "l", "a", "v", "o", "u", "r", " ", "e", "n", "h", "a", "n", "c", "e", "r">>)
     @@ ("flavor enhancer" :> <<"f", "l", "a", "v", "o", "r", " ", "e", "n", "h", "a", "n", "c", "e", "r">>)
     @@ ("non-sugar sweetener" :> <<"n", "o", "n", "-", "s", "u", "g", "a", "r", " ", "s", "w", "e", "e", "t", "e", "n", "e", "r">>)
     @@ ("aspartame" :> <<"a", "s", "p", "a", "r", "t", "a", "m", "e">>)
     @@ ("sucralose" :> <<"s", "u", "c", "r", "a", "l", "o", "s", "e">>)
     @@ ("acesulfame" :> <<"a", "c", "e", "s", "u", "l", "f", "a", "m", "e">>)
     @@ ("carbonating agent" :> <<"c", "a", "r", "b", "o", "n", "a", "t", "i", "n", "g", " ", "a", "g", "e", "n", "t">>)
     @@ ("firming agent" :> <<"f", "i", "r", "m", "i", "n", "g", " ", "a", "g", "e", "n", "t">>)
     @@ ("bulking agent" :> <<"b", "u", "l", "k", "i", "n", "g", " ", "a", "g", "e", "n", "t">>)
     @@ ("anti-caking agent" :> <<"a", "n", "t", "i", "-", "c", "a", "k", "i", "n", "g", " ", "a", "g", "e", "n", "t">>)
     @@ ("glazing agent" :> <<"g", "l", "a", "z", "i", "n", "g", " ", "a", "g", "e", "n", "t">>)
     @@ ("emulsifier" :> <<"e", "m", "u", "l", "s", "i", "f", "i", "e", "r">>)
     @@ ("sequestrant" :> <<"s", "e", "q", "u", "e", "s", "t", "r", "a", "n", "t">>)
     @@ ("humectant" :> <<"h", "u", "m", "e", "c", "t", "a", "n", "t">>)
     @@ ("modified starch" :> <<"m", "o", "d", "i", "f", "i", "e", "d", " ", "s", "t", "a", "r", "c", "h">>)
     @@ ("monosodium glutamate" :> <<"m", "o", "n", "o", "s", "o", "d", "i", "u", "m", " ", "g", "l", "u", "t", "a", "m", "a", "t", "e">>)
     @@ ("msg" :> <<"m", "s", "g">>)
     @@ ("anti-oxidant" :> <<"a", "n", "t", "i", "-", "o", "x", "i", "d", "a", "n", "t">>)
     @@ ("antioxidant" :> <<"a", "n", "t", "i", "o", "x", "i", "d", "a", "n", "t">>)
     @@ ("preservative" :> <<"p", "r", "e", "s", "e", "r", "v", "a", "t", "i", "v", "e">>)
     @@ ("stabiliser" :> <<"s", "t", "a", "b", "i", "l", "i", "s", "e", "r">>)
     @@ ("stabilizer" :> <<"s", "t", "a", "b", "i", "l", "i", "z", "e", "r">>)
     @@ ("oil" :> <<"o", "i", "l">>)
     @@ ("butter" :> <<"b", "u", "t", "t", "e", "r">>)
     @@ ("lard" :> <<"l", "a", "r", "d">>)
     @@ ("sugar" :> <<"s", "u", "g", "a", "r">>)
     @@ ("salt" :> <<"s", "a", "l", "t">>)
     @@ ("honey" :> <<"h", "o", "n", "e", "y">>)
     @@ ("syrup" :> <<"s", "y", "r", "u", "p">>)
     @@ ("molasses" :> <<"m", "o", "l", "a", "s", "s", "e", "s">>)
     @@ ("vinegar" :> <<"v", "i", "n", "e", "g", "a", "r">>)
     @@ ("starch" :> <<"s", "t", "a", "r", "c", "h">>)
     @@ ("artificial sweetener" :> <<"a", "r", "t", "i", "f", "i", "c", "i", "a", "l", " ", "s", "w", "e", "e", "t", "e", "n", "e", "r">>)
     @@ ("colour" :> <<"c", "o", "l", "o", "u", "r">>)
     @@ ("color" :> <<"c", "o", "l", "o", "r">>)
     @@ ("apples" :> <<"a", "p", "p", "l", "e", "s">>)
     @@ ("water" :> <<"w", "a", "t", "e", "r">>)
     @@ ("olive oil" :> <<"o", "l", "i", "v", "e", " ", "o", "i", "l">>)
     @@ ("boiled potatoes" :> <<"b", "o", "i", "l", "e", "d", " ", "p", "o", "t", "a", "t", "o", "e", "s">>)
     @@ ("Sugar" :> <<"S", "u", "g", "a", "r">>)
     @@ ("Sea Salt" :> <<"S", "e", "a", " ", "S", "a", "l", "t">>)
     @@ ("red 40" :> <<"r", "e", "d", " ", "4", "0">>)
     @@ (" " :> <<" ">>)
     @@ ("en:" :> <<"e", "n", ":">>)
     @@ ("_" :> <<"_">>)
     @@ ("en:sweetened_beverages" :> <<"e", "n", ":", "s", "w", "e", "e", "t", "e", "n", "e", "d", "_", "b", "e", "v", "e", "r", "a", "g", "e", "s">>)
     @@ ("en:sodas" :> <<"e", "n", ":", "s", "o", "d", "a", "s">>)
     @@ ("fr:huiles" :> <<"f", "r", ":", "h", "u", "i", "l", "e", "s">>)

NoneStr == <<"None">>
NoneNum == -1

UpperCase == <<"A","B","C","D","E","F","G","H","I","J","K","L","M",
               "N","O","P","Q","R","S","T","U","V","W","X","Y","Z">>
LowerCase == <<"a","b","c","d","e","f","g","h","i","j","k","l","m",
               "n","o","p","q","r","s","t","u","v","w","x","y","z">>

\* str.lower() on one character
lower_char(c) ==
    IF \E k \in 1..Len(UpperCase) : UpperCase[k] = c
    THEN LowerCase[CHOOSE k \in 1..Len(UpperCase) : UpperCase[k] = c]
    ELSE c

\* str.lower()
lower(s) == [k \in 1..Len(s) |-> lower_char(s[k])]

\* str.count(c) for a one-character c
count(s, c) == Cardinality({k \in 1..Len(s) : s[k] = c})

\* `t in s` for two Python strings (substring test)
contains(s, t) ==
    \A text \in {s}, word \in {t} :
        \/ Len(word) = 0
        \/ \E k \in 0..(Len(text) - Len(word)) :
             /\ text[k + 1] = word[1]
             /\ \A j \in 2..Len(word) : text[k + j] = word[j]

\* `term in ing` where term is a literal of the code
term_in(term, ing) == contains(ing, Spell[term])

\* seq[:n]
take(seq, n) == IF Len(seq) <= n THEN seq ELSE SubSeq(seq, 1, n)

\* sep.join(parts), as the sequence of its pieces
RECURSIVE join(_, _)
join(sep, parts) ==
    IF Len(parts) = 0 THEN <<>>
    ELSE IF Len(parts) = 1 THEN <<parts[1]>>
    ELSE <<parts[1], sep>> \o join(sep, Tail(parts))

---------------------------------------------------------------------------
(* NOVA classification: src/PRODUCT_AGENT/tools.py, classify_nova *)

group_4_substances ==
    <<"casein", "lactose", "whey", "gluten",
      "hydrogenated oil", "interesterified oil", "hydrolysed protein",
      "soy protein isolate", "maltodextrin", "invert sugar",
      "high fructose corn syrup", "high-fructose corn syrup",
      "dye", "colour stabiliser", "color stabilizer", "flavour enhancer",
      "flavor enhancer", "non-sugar sweetener", "aspartame", "sucralose",
      "acesulfame", "carbonating agent", "firming agent", "bulking agent",
      "anti-caking agent", "glazing agent", "emulsifier", "sequestrant",
      "humectant", "modified starch", "monosodium glutamate", "msg">>

group_3_additives ==
    <<"anti-oxidant", "antioxidant", "preservative", "stabiliser", "stabilizer">>

group_2_ingredients ==
    <<"oil", "butter", "lard", "sugar", "salt", "honey", "syrup", "molasses",
      "vinegar", "starch">>

cosmetic_additives ==
    <<"artificial sweetener", "emulsifier", "flavour enhancer", "flavor enhancer",
      "colour", "color", "dye">>

\* any(term in ing for term in terms)
any_term_in(terms, ing) == \E k \in 1..Len(terms) : term_in(terms[k], ing)

\* all(term in ing for term in terms)
all_terms_in(terms, ing) == \A k \in 1..Len(terms) : term_in(terms[k], ing)

\* [term for term in terms if term in ing]
matches(terms, ing) ==
    LET hit(term) == term_in(term, ing) IN SelectSeq(terms, hit)

\* ing = (ingredients_text or "").lower()
normalise_text(ingredients_text) ==
    IF ingredients_text = NoneStr \/ ingredients_text = <<>>
    THEN <<>>
    ELSE lower(ingredients_text)

\* ingredient_count = ing.count(",") + 1 if ing else 0
estimate_ingredient_count(ing) ==
    IF ing # <<>> THEN count(ing, ",") + 1 ELSE 0

\* additive_count = len(additives) if additives else 0
count_additives(additives) ==
    IF additives = NoneStr \/ additives = <<>> THEN 0 ELSE Len(additives)

\* Everything classify_nova reads off the text: the values it computes up
\* front and each `term in ing` test of the elif chain (all of them pure, so
\* evaluating them once, before the chain, changes nothing).
scan_text(ingredients_text) ==
    LET ing == normalise_text(ingredients_text)
        group_4_matches == matches(group_4_substances, ing)
    IN  [ingredient_count       |-> estimate_ingredient_count(ing),
         group_4_matches        |-> group_4_matches,
         has_group_4_substances |-> Len(group_4_matches) > 0,
         has_cosmetic_additives |-> any_term_in(cosmetic_additives, ing),
         any_group_2            |-> any_term_in(group_2_ingredients, ing),
         all_group_2_head       |-> all_terms_in(take(group_2_ingredients, 1), ing),
         group_2_found          |-> matches(group_2_ingredients, ing),
         any_group_3_additives  |-> any_term_in(group_3_additives, ing)]

\* if nova_group_api == 4 or has_group_4_substances or ingredient_count >= 5
group_4_rule(s, nova_group_api) ==
    nova_group_api = 4 \/ s.has_group_4_substances \/ s.ingredient_count >= 5

\* cosmetic_rule without the bound on the ingredient count
cosmetic_rule_any_count(s) ==
    s.has_cosmetic_additives

\* elif has_cosmetic_additives and ingredient_count <= 3
cosmetic_rule(s) ==
    s.has_cosmetic_additives /\ s.ingredient_count <= 3

\* elif ingredient_count >= 2 and any(term in ing for term in group_2_ingredients)
group_3_rule(s) ==
    s.ingredient_count >= 2 /\ s.any_group_2

\* elif ingredient_count <= 2 and all(term in ing for term in group_2_ingredients[:1])
group_2_rule(s) ==
    s.ingredient_count <= 2 /\ s.all_group_2_head

\* decide_nova_group with no group set when no rule matches
decide_nova_group_unset(s, nova_group_api, additive_count) ==
    IF group_4_rule(s, nova_group_api) THEN 4
    ELSE IF cosmetic_rule(s) THEN 4
    ELSE IF group_3_rule(s) THEN 3
    ELSE IF group_2_rule(s) THEN 2
    ELSE 0

\* decide_nova_group with the Group 2 test ahead of the Group 3 test
decide_nova_group_group_2_first(s, nova_group_api, additive_count) ==
    IF group_4_rule(s, nova_group_api) THEN 4
    ELSE IF cosmetic_rule(s) THEN 4
    ELSE IF group_2_rule(s) THEN 2
    ELSE IF group_3_rule(s) THEN 3
    ELSE 1

\* decide_nova_group taking the API group whenever there is one
decide_nova_group_api_wins(s, nova_group_api, additive_count) ==
    IF nova_group_api # NoneNum /\ nova_group_api # 0 THEN nova_group_api
    ELSE IF group_4_rule(s, nova_group_api) THEN 4
    ELSE IF cosmetic_rule(s) THEN 4
    ELSE IF group_3_rule(s) THEN 3
    ELSE IF group_2_rule(s) THEN 2
    ELSE 1

\* decide_nova_group counting any additive tag as a sign of Group 4
decide_nova_group_additives_count(s, nova_group_api, additive_count) ==
    IF group_4_rule(s, nova_group_api) \/ additive_count > 0 THEN 4
    ELSE IF cosmetic_rule(s) THEN 4
    ELSE IF group_3_rule(s) THEN 3
    ELSE IF group_2_rule(s) THEN 2
    ELSE 1

\* The if/elif chain that sets nova_group
decide_nova_group(s, nova_group_api, additive_count) ==
    IF group_4_rule(s, nova_group_api) THEN 4
    ELSE IF cosmetic_rule(s) THEN 4
    ELSE IF group_3_rule(s) THEN 3
    ELSE IF group_2_rule(s) THEN 2
    ELSE 1

\* The reasoning text the branch taken builds, as the sequence of its pieces
branch_reasoning(s, nova_group_api, additive_count) ==
    IF group_4_rule(s, nova_group_api)
    THEN <<"Industrial formulation.", " ">>
         \o (IF Len(s.group_4_matches) > 0
             THEN <<"Contains ultra-processed substances: ">>
                  \o join(", ", take(s.group_4_matches, 3)) \o <<".", " ">>
             ELSE <<>>)
         \o (IF s.ingredient_count >= 5
             THEN <<"Has ", ToString(s.ingredient_count),
                    " ingredients (typical of ultra-processed).", " ">>
             ELSE <<>>)
         \o (IF additive_count > 0
             THEN <<"Contains ", ToString(additive_count), " additives.">>
             ELSE <<>>)
    ELSE IF cosmetic_rule(s)
    THEN <<"Simple product with cosmetic or sensory-intensifying additives, classified as ultra-processed per NOVA criteria.">>
    ELSE IF group_3_rule(s)
    THEN <<"Processed food.", " ">>
         \o <<"Contains Group 2 culinary ingredients (">>
         \o join(", ", take(s.group_2_found, 2))
         \o <<") added to whole foods.", " ">>
         \o (IF s.ingredient_count <= 3
             THEN <<"Has ", ToString(s.ingredient_count),
                    " ingredients (typical of processed foods).", " ">>
             ELSE <<>>)
         \o (IF s.any_group_3_additives
             THEN <<"Contains preservation additives.">>
             ELSE <<>>)
    ELSE IF group_2_rule(s)
    THEN <<"Processed culinary ingredient.", " ",
           "Substance extracted from Group 1 foods or nature, used in cooking and preparation.">>
    ELSE <<"Unprocessed or minimally processed food.", " ",
           "Natural food with no added salt, sugar, oils, or fats.", " ">>
         \o (IF s.ingredient_count <= 2
             THEN <<"Minimal ingredients, no ultra-processing indicators.">>
             ELSE <<>>)

\* Python truth value of the optional integer nova_group_api
truthy(n) == n # NoneNum /\ n # 0

\* The note appended when the API group differs from the computed one
api_note(nova_group_api, nova_group) ==
    IF truthy(nova_group_api) /\ nova_group_api # nova_group
    THEN <<" (Note: Open Food Facts classifies as Group ",
           ToString(nova_group_api), ")">>
    ELSE <<>>

\* str.strip() on a text made of pieces: blank pieces at either end go
RECURSIVE strip(_)
strip(pieces) ==
    IF pieces = <<>> THEN <<>>
    ELSE IF Head(pieces) = " " THEN strip(Tail(pieces))
    ELSE IF pieces[Len(pieces)] = " " THEN strip(SubSeq(pieces, 1, Len(pieces) - 1))
    ELSE pieces

nova_names ==
    <<"Group 1: Unprocessed or Minimally Processed Foods",
      "Group 2: Processed Culinary Ingredients",
      "Group 3: Processed Foods",
      "Group 4: Ultra-Processed Food and Drink Products">>

\* nova_names.get(nova_group, "Unknown")
nova_name_of(nova_group) ==
    IF nova_group \in 1..Len(nova_names) THEN nova_names[nova_group] ELSE "Unknown"

\* classify_nova on a text already scanned
classify_scanned(s, additives, nova_group_api) ==
    LET additive_count == count_additives(additives)
        nova_group == decide_nova_group(s, nova_group_api, additive_count)
        reasoning == branch_reasoning(s, nova_group_api, additive_count)
                     \o api_note(nova_group_api, nova_group)
    IN  [nova_group       |-> nova_group,
         nova_name        |-> nova_name_of(nova_group),
         reasoning        |-> strip(reasoning),
         key_indicators   |-> take(s.group_4_matches, 5),
         ingredient_count |-> s.ingredient_count,
         additive_count   |-> additive_count]

classify_nova(ingredients_text, additives, nova_group_api) ==
    classify_scanned(scan_text(ingredients_text), additives, nova_group_api)

---------------------------------------------------------------------------
(* Health score: src/PRODUCT_AGENT/tools.py, compute_health_score *)

\* Nutrient amounts are counted in 1/NutrientUnit gram, scores in 1/ScoreUnit
\* point: binary fractions, which a float holds exactly.
NutrientUnit == 16
ScoreUnit == 32

min(a, b) == IF a <= b THEN a ELSE b
max(a, b) == IF a >= b THEN a ELSE b

\* n score points
points(n) == n * ScoreUnit

\* amount * (num / den): a nutrient amount times a float factor, in score units
times(amount, num, den) == (amount * num * ScoreUnit) \div (den * NutrientUnit)

\* round(num / den, digits), counted in units of 10^-digits: the nearest
\* such value, the even one of the two when num / den is exactly half way
py_round(num, den, digits) ==
    LET scaled == num * (10 ^ digits)
        q == scaled \div den
        r == scaled % den
    IN  IF 2 * r < den THEN q
        ELSE IF 2 * r > den THEN q + 1
        ELSE IF q % 2 = 0 THEN q ELSE q + 1

\* float(nutrients.get(key) or 0)
read_nutrient(nutrients, key) ==
    IF key \notin DOMAIN nutrients THEN 0
    ELSE IF nutrients[key] = NoneNum \/ nutrients[key] = 0 THEN 0
    ELSE nutrients[key]

base_scores == (1 :> 90) @@ (2 :> 75) @@ (3 :> 60) @@ (4 :> 30)

\* float(base_scores.get(nova_group, 50))
base_score(nova_group) ==
    IF nova_group \in DOMAIN base_scores THEN points(base_scores[nova_group])
    ELSE points(50)

\* sugar_penalty with the cap of compute_simple_scores (40)
sugar_penalty_cap_40(sugar) == min(times(sugar, 3, 2), points(40))

\* sugar_penalty with its sign lost, so that the caller adds it
sugar_penalty_sign_slip(sugar) == 0 - min(times(sugar, 3, 2), points(30))

sugar_penalty(sugar) == min(times(sugar, 3, 2), points(30))
sat_fat_penalty(sat_fat) == min(times(sat_fat, 2, 1), points(25))
salt_penalty(salt) == min(times(salt, 10, 1), points(20))

\* fiber_bonus without its cap
fiber_bonus_uncapped(fiber) == times(fiber, 2, 1)

fiber_bonus(fiber) == min(times(fiber, 2, 1), points(15))
protein_bonus(protein) == min(times(protein, 1, 2), points(10))

\* clamp_score without the lower bound
clamp_score_no_floor(score) == min(points(100), score)

\* score = max(0.0, min(100.0, score))
clamp_score(score) == max(0, min(points(100), score))

\* The score before rounding: the base, the three penalties taken off and
\* the two bonuses added one after the other, then the clamp
running_score(nutrients, nova_group) ==
    LET sugar   == read_nutrient(nutrients, "sugars_100g")
        sat_fat == read_nutrient(nutrients, "saturated-fat_100g")
        salt    == read_nutrient(nutrients, "salt_100g")
        fiber   == read_nutrient(nutrients, "fiber_100g")
        protein == read_nutrient(nutrients, "proteins_100g")
        s0 == base_score(nova_group)
        s1 == s0 - sugar_penalty(sugar)
        s2 == s1 - sat_fat_penalty(sat_fat)
        s3 == s2 - salt_penalty(salt)
        s4 == s3 + fiber_bonus(fiber)
        s5 == s4 + protein_bonus(protein)
    IN  clamp_score(s5)

\* The if/elif chain that words the score
interpret(score) ==
    IF score >= points(80) THEN "Excellent - Whole food, minimal processing"
    ELSE IF score >= points(65) THEN "Good - Moderately processed"
    ELSE IF score >= points(50) THEN "Fair - Processed food, consume in moderation"
    ELSE "Poor - Ultra-processed, limit consumption"

\* health_score is counted in tenths of a point, the breakdown in tenths of a
\* gram and, for salt, in hundredths
compute_health_score(nutrients, nova_group) ==
    LET score == running_score(nutrients, nova_group)
    IN  [health_score   |-> py_round(score, ScoreUnit, 1),
         interpretation |-> interpret(score),
         breakdown |->
           [sugar_g_per_100g |->
              py_round(read_nutrient(nutrients, "sugars_100g"), NutrientUnit, 1),
            saturated_fat_g_per_100g |->
              py_round(read_nutrient(nutrients, "saturated-fat_100g"), NutrientUnit, 1),
            salt_g_per_100g |->
              py_round(read_nutrient(nutrients, "salt_100g"), NutrientUnit, 2),
            fiber_g_per_100g |->
              py_round(read_nutrient(nutrients, "fiber_100g"), NutrientUnit, 1),
            protein_g_per_100g |->
              py_round(read_nutrient(nutrients, "proteins_100g"), NutrientUnit, 1)]]

---------------------------------------------------------------------------
(* Dicts, exceptions and the upstream source *)

\* None where a dict is expected
NoneMap == [k \in {"None"} |-> NoneNum]

\* {}
EmptyMap == [k \in {} |-> NoneNum]

\* d.get(key, default) for a dict d, a function from its keys
get(d, key, default) == IF key \in DOMAIN d THEN d[key] ELSE default

\* d is a dict, so that d.get exists
is_dict(d) == "None" \notin DOMAIN d

\* What a block of code does: it returns a value, raises an exception, or
\* runs to its end (the loop goes on)
Return(value) == [do |-> "return", value |-> value]
Raise(exc) == [do |-> "raise", exc |-> exc]
Continue == [do |-> "continue"]

\* What requests.get gives for one request: it raises exc (a Timeout or a
\* ConnectionError), or returns a response with a status code and a body,
\* which response.json() cannot parse ("unparsable"), parses to something
\* that is no JSON object ("not_object"), or parses to an object with a
\* count and a list of products ("object"; "null_products" when its
\* products entry is null).
failed_request(exc) ==
    [exc |-> exc, status_code |-> 0, body |-> "none", count |-> 0,
     products |-> <<>>]
http_response(status_code, body) ==
    [exc |-> "none", status_code |-> status_code, body |-> body, count |-> 0,
     products |-> <<>>]
json_response(n, products) ==
    [exc |-> "none", status_code |-> 200, body |-> "object", count |-> n,
     products |-> products]
null_products_response(n) ==
    [exc |-> "none", status_code |-> 200, body |-> "null_products",
     count |-> n, products |-> <<>>]

\* response.json()
json(response) ==
    IF response.body = "unparsable" THEN Raise("ValueError")
    ELSE Return(response)

---------------------------------------------------------------------------
(* Product lookup: src/PRODUCT_AGENT/tools.py, openfoodfacts_lookup *)

\* [ing.get("text") for ing in product.get("ingredients", []) if ing.get("text")]
RECURSIVE ingredients_list(_)
ingredients_list(ingredients) ==
    IF ingredients = <<>> THEN <<>>
    ELSE IF Head(ingredients).text = NoneStr \/ Head(ingredients).text = <<>>
         THEN ingredients_list(Tail(ingredients))
         ELSE <<Head(ingredients).text>> \o ingredients_list(Tail(ingredients))

\* The record made of the first product of the response
product_record(product) ==
    [product_name |-> get(product, "product_name", NoneStr),
     brand |-> get(product, "brands", NoneStr),
     ingredients |-> get(product, "ingredients_text", NoneStr),
     ingredients_list |-> ingredients_list(get(product, "ingredients", <<>>)),
     nutrients |-> get(product, "nutriments", EmptyMap),
     nova_group |-> get(product, "nova_group", NoneNum),
     allergens |-> get(product, "allergens", NoneStr),
     additives |-> get(product, "additives_tags", <<>>),
     categories |-> get(product, "categories_tags", <<>>)]

timed_out_error ==
    [error |-> <<"API request timed out after 3 attempts. The Open Food Facts API may be slow or unavailable.">>]
request_failed_error(exc) == [error |-> <<"API request failed: ", exc>>]
no_product_error ==
    [error |-> <<"No product found in Open Food Facts database. Try searching with a more specific product name or brand.">>]

\* The same timeout at every attempt
timeout_fixed(attempt) == 15

\* timeout = 15 + (attempt * 5)
timeout_of(attempt) == 15 + (attempt * 5)

\* The request of one attempt
lookup_request(product_name, attempt) ==
    [by |-> "openfoodfacts_lookup", search_terms |-> product_name,
     page_size |-> 1, timeout |-> timeout_of(attempt)]

\* The body of the try statement, given what requests.get does
lookup_try(response) ==
    IF response.exc # "none" THEN Raise(response.exc)
    ELSE IF response.status_code = 200
    THEN IF json(response).do = "raise" THEN json(response)
         ELSE IF response.body = "not_object" THEN Raise("AttributeError")
         ELSE IF response.body = "object" /\ response.products # <<>>
         THEN IF is_dict(response.products[1])
              THEN Return(product_record(response.products[1]))
              ELSE Raise("AttributeError")
         ELSE Continue
    ELSE Continue

\* The except clauses, without the clause for every Exception: another
\* exception than Timeout leaves the function
lookup_except_timeout_only(exc, attempt) ==
    IF exc = "Timeout"
    THEN IF attempt = 2 THEN Return(timed_out_error) ELSE Continue
    ELSE Raise(exc)

\* The except clauses, the call given up at the first timeout
lookup_except_gives_up(exc, attempt) ==
    IF exc = "Timeout" THEN Return(timed_out_error)
    ELSE Return(request_failed_error(exc))

\* The except clauses
lookup_except(exc, attempt) ==
    IF exc = "Timeout"
    THEN IF attempt = 2 THEN Return(timed_out_error) ELSE Continue
    ELSE Return(request_failed_error(exc))

\* The attempts range(3) runs through
lookup_attempts == 3

\* One turn of the loop; after the last one the function returns that
\* there is no product
lookup_attempt(attempt, response) ==
    LET tried == lookup_try(response)
        done  == IF tried.do = "raise" THEN lookup_except(tried.exc, attempt)
                 ELSE tried
    IN  IF done.do = "continue" /\ attempt + 1 = lookup_attempts
        THEN Return(no_product_error)
        ELSE done

---------------------------------------------------------------------------
(* Product lookup of the root agent: src/tools.py, openfoodfacts_lookup *)

root_product_record(p) ==
    [name |-> get(p, "product_name", <<>>),
     brand |-> get(p, "brands", <<>>),
     ingredients_text |-> get(p, "ingredients_text", <<>>),
     nutriments |-> get(p, "nutriments", EmptyMap),
     categories |-> get(p, "categories_tags", <<>>),
     source |-> "openfoodfacts"]

root_lookup_request(query) ==
    [by |-> "root_openfoodfacts_lookup", search_terms |-> query,
     page_size |-> NoneNum, timeout |-> 8]

root_lookup_try(response) ==
    IF response.exc # "none" THEN Raise(response.exc)
    ELSE IF json(response).do = "raise" THEN json(response)
    ELSE IF response.body = "not_object" THEN Raise("AttributeError")
    ELSE IF response.count = NoneNum THEN Raise("TypeError")
    ELSE IF response.count <= 0 THEN Return([error |-> "no_results"])
    ELSE IF response.body = "null_products" THEN Raise("TypeError")
    ELSE IF response.products = <<>> THEN Raise("IndexError")
    ELSE IF ~is_dict(response.products[1]) THEN Raise("AttributeError")
    ELSE Return(root_product_record(response.products[1]))

root_lookup(response) ==
    LET tried == root_lookup_try(response)
    IN  IF tried.do = "raise"
        THEN Return([error |-> "request_failed", error_message |-> tried.exc])
        ELSE tried
---------------------------------------------------------------------------
(* Alternatives: src/PRODUCT_AGENT/tools.py, suggest_alternatives *)

\* s.replace(old, new), old not empty
RECURSIVE replace(_, _, _)
replace(s, old, new) ==
    IF Len(s) < Len(old) THEN s
    ELSE IF SubSeq(s, 1, Len(old)) = old
         THEN new \o replace(SubSeq(s, Len(old) + 1, Len(s)), old, new)
         ELSE <<s[1]>> \o replace(Tail(s), old, new)

\* categories[0].replace("en:", "").replace("_", " ")
category_of(categories) ==
    replace(replace(Spell[categories[1]], Spell["en:"], <<>>), Spell["_"], Spell[" "])

\* The request for candidates
suggest_request(category, limit) ==
    [by |-> "suggest_alternatives", search_terms |-> category,
     page_size |-> limit * 3, timeout |-> 10]

\* A Python str or list is falsy when it is None or empty
falsy(value) == value = NoneStr \/ value = <<>>

\* product.get("nova_group", 1): a product without group taken for the best
candidate_nova_best(product) == get(product, "nova_group", 1)

\* nova = product.get("nova_group", 4)
candidate_nova(product) == get(product, "nova_group", 4)

\* The candidate made of one product of the response: nothing for a product
\* without a name; product.get and nutrients.get raise on what is no dict,
\* nova * 10 on None
candidate_of(product) ==
    IF ~is_dict(product) THEN Raise("AttributeError")
    ELSE IF falsy(get(product, "product_name", NoneStr)) THEN Continue
    ELSE IF ~is_dict(get(product, "nutriments", EmptyMap))
    THEN Raise("AttributeError")
    ELSE IF candidate_nova(product) = NoneNum THEN Raise("TypeError")
    ELSE LET nutrients == get(product, "nutriments", EmptyMap)
             nova  == candidate_nova(product)
             sugar == read_nutrient(nutrients, "sugars_100g")
             salt  == read_nutrient(nutrients, "salt_100g")
         IN  Return([name |-> product.product_name,
                     brand |-> get(product, "brands", <<"U", "n", "k", "n", "o", "w", "n">>),
                     nova_group |-> nova,
                     sugars_100g |-> sugar,
                     salt_100g |-> salt,
                     score |-> sugar + salt + (nova * 10 * NutrientUnit)])

\* The loop over the products of the response: the candidates, or the
\* first exception raised
RECURSIVE candidates_of(_)
candidates_of(products) ==
    IF products = <<>> THEN Return(<<>>)
    ELSE LET first == candidate_of(Head(products))
             rest  == candidates_of(Tail(products))
         IN  IF first.do = "raise" THEN first
             ELSE IF rest.do = "raise" THEN rest
             ELSE IF first.do = "continue" THEN rest
             ELSE Return(<<first.value>> \o rest.value)

\* Tuples of numbers as Python orders them
RECURSIVE less(_, _)
less(a, b) ==
    IF a = <<>> \/ b = <<>> THEN a = <<>> /\ b # <<>>
    ELSE Head(a) < Head(b) \/ (Head(a) = Head(b) /\ less(Tail(a), Tail(b)))

\* sorted(items, key=...) that leaves the items as they are listed
sorted_as_listed(items, keys) == items

\* sorted(items, key=...), keys[i] the key of items[i]: a stable sort
sorted(items, keys) ==
    LET rank(i) == Cardinality({j \in 1..Len(keys) :
                       less(keys[j], keys[i]) \/ (keys[j] = keys[i] /\ j < i)}) + 1
    IN  [p \in 1..Len(items) |->
           items[CHOOSE i \in 1..Len(items) : rank(i) = p]]

\* The reasons of one candidate, 5 g of sugar counted as low sugar
reason_of_inclusive(candidate) ==
    LET reason ==
          (IF candidate.nova_group <= 2 THEN <<"minimally processed">> ELSE <<>>)
          \o (IF candidate.sugars_100g <= 5 * NutrientUnit THEN <<"low sugar">> ELSE <<>>)
          \o (IF 2 * candidate.salt_100g < NutrientUnit THEN <<"low salt">> ELSE <<>>)
    IN  IF reason # <<>> THEN join(", ", reason)
        ELSE <<"healthier nutritional profile">>

\* The reasons of one candidate
reason_of(candidate) ==
    LET reason ==
          (IF candidate.nova_group <= 2 THEN <<"minimally processed">> ELSE <<>>)
          \o (IF candidate.sugars_100g < 5 * NutrientUnit THEN <<"low sugar">> ELSE <<>>)
          \o (IF 2 * candidate.salt_100g < NutrientUnit THEN <<"low salt">> ELSE <<>>)
    IN  IF reason # <<>> THEN join(", ", reason)
        ELSE <<"healthier nutritional profile">>

alternative_of(candidate) ==
    [name |-> candidate.name, brand |-> candidate.brand,
     nova_group |-> candidate.nova_group, reason |-> reason_of(candidate)]

\* candidates[:limit] with every candidate: the slice is left out
top_candidates_unsliced(candidates, limit) == candidates

\* candidates[:limit], limit >= 0
top_candidates(candidates, limit) == take(candidates, limit)

\* The body of the try statement, given what requests.get does
suggest_try(response, limit) ==
    IF response.exc # "none" THEN Raise(response.exc)
    ELSE IF json(response).do = "raise" THEN json(response)
    ELSE IF response.body = "not_object" THEN Raise("AttributeError")
    ELSE IF response.body = "null_products" THEN Raise("TypeError")
    ELSE LET found == candidates_of(response.products)
             candidates ==
               sorted(found.value,
                      [i \in 1..Len(found.value) |-> <<found.value[i].score>>])
             top == top_candidates(candidates, limit)
         IN  IF found.do = "raise" THEN found
             ELSE Return([alternatives |->
                            [i \in 1..Len(top) |-> alternative_of(top[i])]])

\* except Exception, catching the exceptions of requests only
suggest_except_requests_only(exc) ==
    IF exc \in {"Timeout", "ConnectionError"}
    THEN Return([alternatives |-> <<>>,
                 error |-> <<"Failed to find alternatives: ", exc>>])
    ELSE Raise(exc)

\* except Exception
suggest_except(exc) ==
    Return([alternatives |-> <<>>,
            error |-> <<"Failed to find alternatives: ", exc>>])

\* The categories the function reads
suggest_categories(product_data) == get(product_data, "categories", <<>>)

\* The function asks the upstream for candidates
suggest_queries(product_data) == ~falsy(suggest_categories(product_data))

no_category_message == <<"No category information available for alternatives">>

\* suggest_alternatives(product_data, limit), given what requests.get does
suggest_alternatives(product_data, limit, response) ==
    IF ~suggest_queries(product_data)
    THEN Return([alternatives |-> <<>>, message |-> no_category_message])
    ELSE LET tried == suggest_try(response, limit)
         IN  IF tried.do = "raise" THEN suggest_except(tried.exc) ELSE tried

---------------------------------------------------------------------------
(* Alternatives of the root agent: src/tools.py, suggest_alternatives *)

root_suggest_request(q, limit) ==
    [by |-> "root_suggest_alternatives", search_terms |-> q,
     page_size |-> limit * 3, timeout |-> 8]

root_candidate_of(p) ==
    IF ~is_dict(p) THEN Raise("AttributeError")
    ELSE IF falsy(get(p, "product_name", NoneStr)) THEN Continue
    ELSE IF ~is_dict(get(p, "nutriments", EmptyMap)) THEN Raise("AttributeError")
    ELSE LET nutr == get(p, "nutriments", EmptyMap)
         IN  Return([name |-> p.product_name,
                     brand |-> get(p, "brands", NoneStr),
                     sugars_100g |-> read_nutrient(nutr, "sugars_100g"),
                     salt_100g |-> read_nutrient(nutr, "salt_100g"),
                     nutriments |-> nutr])

RECURSIVE root_candidates_of(_)
root_candidates_of(products) ==
    IF products = <<>> THEN Return(<<>>)
    ELSE LET first == root_candidate_of(Head(products))
             rest  == root_candidates_of(Tail(products))
         IN  IF first.do = "raise" THEN first
             ELSE IF rest.do = "raise" THEN rest
             ELSE IF first.do = "continue" THEN rest
             ELSE Return(<<first.value>> \o rest.value)

root_suggest_try(response, limit) ==
    IF response.exc # "none" THEN Raise(response.exc)
    ELSE IF json(response).do = "raise" THEN json(response)
    ELSE IF response.body = "not_object" THEN Raise("AttributeError")
    ELSE IF response.body = "null_products" THEN Raise("TypeError")
    ELSE LET found == root_candidates_of(response.products)
             candidates ==
               sorted(found.value,
                      [i \in 1..Len(found.value) |->
                         <<found.value[i].sugars_100g, found.value[i].salt_100g>>])
         IN  IF found.do = "raise" THEN found
             ELSE Return([alternatives |-> take(candidates, limit)])

\* product_record.get("categories") or []
root_suggest_queries(record) ==
    ~falsy(get(record, "categories", NoneStr))

root_suggest_alternatives(record, limit, response) ==
    IF ~root_suggest_queries(record)
    THEN Return([alternatives |-> <<>>])
    ELSE LET tried == root_suggest_try(response, limit)
         IN  IF tried.do = "raise" THEN Return([alternatives |-> <<>>])
             ELSE tried
---------------------------------------------------------------------------
(* Calls of classify_nova and compute_health_score: what they raise *)

\* (ingredients_text or "")
text_or_empty(ingredients_text) ==
    IF falsy(ingredients_text) THEN <<>> ELSE ingredients_text

\* nutrients.get(key) or 0, the `or 0` left out
nutrient_or_zero_unguarded(value) == value

\* nutrients.get(key) or 0
nutrient_or_zero(value) == IF value = NoneNum \/ value = 0 THEN 0 ELSE value

\* The keys compute_health_score reads
nutrient_keys ==
    <<"sugars_100g", "saturated-fat_100g", "salt_100g", "fiber_100g",
      "proteins_100g">>

\* What a call of classify_nova raises, "none" when it returns: .lower()
\* raises on None
classify_nova_raises(ingredients_text, additives, nova_group_api) ==
    IF text_or_empty(ingredients_text) = NoneStr THEN "AttributeError"
    ELSE "none"

\* What a call of compute_health_score raises, "none" when it returns:
\* nutrients.get raises on what is no dict, float() on None
compute_health_score_raises(nutrients, nova_group) ==
    IF ~is_dict(nutrients) THEN "AttributeError"
    ELSE IF \E i \in 1..Len(nutrient_keys) :
              nutrient_or_zero(get(nutrients, nutrient_keys[i], NoneNum)) = NoneNum
    THEN "TypeError"
    ELSE "none"

\* classify_nova(ingredients_text, additives, nova_group_api) as a call
call_classify_nova(ingredients_text, additives, nova_group_api) ==
    IF classify_nova_raises(ingredients_text, additives, nova_group_api) # "none"
    THEN Raise(classify_nova_raises(ingredients_text, additives, nova_group_api))
    ELSE Return(classify_nova(ingredients_text, additives, nova_group_api))

\* compute_health_score(nutrients, nova_group) as a call
call_compute_health_score(nutrients, nova_group) ==
    IF compute_health_score_raises(nutrients, nova_group) # "none"
    THEN Raise(compute_health_score_raises(nutrients, nova_group))
    ELSE Return(compute_health_score(nutrients, nova_group))

---------------------------------------------------------------------------
(* Pipeline: src/streamlit_app.py, analyze_product, and                    *)
(* src/streamlit_app_V2.py, analyze_product_flow                           *)

\* A local variable that is not assigned yet
Unset == [do |-> "unset"]

\* return None
ReturnNone == Return(NoneMap)

\* suggest_alternatives(product_data, limit=3)
analysis_limit == 3

\* translate_to_english(text), for a text that is ASCII and not blank, or
\* empty or None: the text itself
translate_to_english(text) == text

\* translate_product_data(product_data): a copy in which each text field
\* that is not empty is translated, the original kept under another key
translate_product_data(product_data) ==
    LET kept(field, original_field) ==
          IF falsy(get(product_data, field, NoneStr)) THEN EmptyMap
          ELSE (original_field :> product_data[field])
               @@ (field :> translate_to_english(product_data[field]))
        list == get(product_data, "ingredients_list", <<>>)
    IN  (IF list = <<>> THEN EmptyMap
         ELSE ("_original_ingredients_list" :> list)
              @@ ("ingredients_list" :>
                    [i \in 1..Len(list) |-> translate_to_english(list[i])]))
        @@ kept("product_name", "_original_product_name")
        @@ kept("brand", "_original_brand")
        @@ kept("ingredients", "_original_ingredients")
        @@ kept("allergens", "_original_allergens")
        @@ product_data

\* The product data the steps after the lookup work on
working_data(app, product_data) ==
    IF app = "streamlit_app_V2" THEN translate_product_data(product_data)
    ELSE product_data

\* nova_classification.get("nova_group", 4), the default passed always
score_group_default(nova_classification) == 4

\* nova_classification.get("nova_group", 4)
score_group(nova_classification) == get(nova_classification, "nova_group", 4)

\* The dict the pipeline returns
analysis_results(product_data, nova_classification, health_score, alternatives) ==
    [product_data |-> product_data,
     nova_classification |-> nova_classification,
     health_score |-> health_score,
     alternatives |-> alternatives]

---------------------------------------------------------------------------
(* Inputs of classify_nova *)

MaxFiller == 4
MaxAdditives == 1

\* Ingredients an input text is made of: the culinary markers, plain foods
\* (one of them spelling "oil" inside another word), capitalised names,
\* industrial substances and cosmetic additives.
ItemWords ==
    <<"oil", "butter", "lard", "sugar", "salt", "honey", "syrup", "molasses",
      "vinegar", "starch",
      "apples", "olive oil", "boiled potatoes", "Sugar", "Sea Salt", "red 40",
      "msg", "maltodextrin", "modified starch", "invert sugar", "emulsifier",
      "dye", "colour", "color", "artificial sweetener", "preservative">>

\* s1 + s2 + ... for a sequence of Python strings
RECURSIVE concat(_)
concat(strs) == IF strs = <<>> THEN <<>> ELSE Head(strs) \o concat(Tail(strs))

\* Ingredients that come second in a text
SecondWords == <<"oil", "salt", "apples", "msg", "colour", "preservative">>

\* The text "w1, w2, water, ..., water": word i of ItemWords and word j of
\* SecondWords (0: left out) followed by n fillers, separated by ", "
text_of(i, j, n) ==
    LET first  == IF i = 0 THEN <<>> ELSE <<Spell[ItemWords[i]]>>
        second == IF j = 0 THEN <<>> ELSE <<Spell[SecondWords[j]]>>
        filler == [k \in 1..n |-> Spell["water"]]
    IN  concat(join(<<",", " ">>, first \o second \o filler))

IngredientTexts ==
    {text_of(i, j, n) : i \in 0..Len(ItemWords), j \in 0..Len(SecondWords),
                        n \in 0..MaxFiller}
    \cup {NoneStr, Spell[" "]}

AdditiveTags == <<"en:e330", "en:e322", "en:e202", "en:e150d">>

AdditiveLists ==
    {take(AdditiveTags, n) : n \in 0..MaxAdditives} \cup {NoneStr}

ApiGroups == {NoneNum, 1, 2, 3, 4}

---------------------------------------------------------------------------
(* Inputs of compute_health_score *)

MaxSteps == 2
MaxTier == 5
SugarStep == 107
SatFatStep == 40
SaltStep == 8
FiberStep == 40
ProteinStep == 160
ExtremeAmount == 16000

\* Amounts of one nutrient: absent (None), zero, MaxSteps steps, and an
\* extreme amount (1000 g with the values above)
amounts(step) ==
    {NoneNum, 0, ExtremeAmount} \cup {k * step : k \in 1..MaxSteps}

\* The nutriments dict of a product
nutrient_map(sugar, sat_fat, salt, fiber, protein) ==
    ("sugars_100g" :> sugar) @@ ("saturated-fat_100g" :> sat_fat)
    @@ ("salt_100g" :> salt) @@ ("fiber_100g" :> fiber)
    @@ ("proteins_100g" :> protein)

\* nova_group arguments: None, the four groups and values outside them
ScoreGroups == {NoneNum} \cup 0..MaxTier

---------------------------------------------------------------------------
(* Operations.  call is the call made (none yet in the initial state),     *)
(* result what it returned.                                                *)

Init ==
    /\ call = [fn |-> "none"]
    /\ result = [fn |-> "none"]
    /\ lookup = [pc |-> "idle", product_name |-> <<>>, attempt |-> 0,
                 outcome |-> Continue]
    /\ net = <<>>
    /\ run = [pc |-> "idle", app |-> "none", calls |-> <<>>,
              product_data |-> Unset, nova_classification |-> Unset,
              health_score |-> Unset, alternatives |-> Unset,
              returned |-> Unset, session |-> Unset]
    /\ analyzed_products = <<>>

\* One call of classify_nova.  The text is scanned once for all the
\* additive lists and API groups it is classified with.
ClassifyNova ==
    /\ call.fn = "none"
    /\ \E t \in IngredientTexts :
         \E s \in {scan_text(t)} :
           \E a \in AdditiveLists, h \in ApiGroups :
             /\ call' = [fn |-> "classify_nova", ingredients_text |-> t,
                         additives |-> a, nova_group_api |-> h]
             /\ result' = IF classify_nova_raises(t, a, h) = "none"
                          THEN classify_scanned(s, a, h)
                          ELSE Raise(classify_nova_raises(t, a, h))
    /\ UNCHANGED <<lookup, net, run, analyzed_products>>

\* One call of compute_health_score
ComputeHealthScore ==
    /\ call.fn = "none"
    /\ \E sugar \in amounts(SugarStep), sat_fat \in amounts(SatFatStep),
          salt \in amounts(SaltStep), fiber \in amounts(FiberStep),
          protein \in amounts(ProteinStep), g \in ScoreGroups :
         /\ call' = [fn |-> "compute_health_score",
                     nutrients |-> nutrient_map(sugar, sat_fat, salt, fiber, protein),
                     nova_group |-> g]
         /\ result' = IF compute_health_score_raises(call'.nutrients, g) = "none"
                      THEN compute_health_score(call'.nutrients, g)
                      ELSE Raise(compute_health_score_raises(call'.nutrients, g))
    /\ UNCHANGED <<lookup, net, run, analyzed_products>>

NextNova == ClassifyNova

SpecNova == Init /\ [][NextNova]_vars

NextScore == ComputeHealthScore

SpecScore == Init /\ [][NextScore]_vars

---------------------------------------------------------------------------
(* Inputs of the lookups: what the upstream source answers *)

\* Products as the upstream source lists them: one with every entry, one
\* with few entries, one with only a name, one whose entries are null
UpstreamProducts ==
    { [product_name |-> <<"C", "o", "l", "a">>,
       brands |-> <<"A", "c", "m", "e">>,
       ingredients_text |-> text_of(4, 5, 1),
       ingredients |-> <<[text |-> Spell["sugar"]], [text |-> NoneStr],
                         [text |-> Spell["colour"]]>>,
       nutriments |-> nutrient_map(2 * SugarStep, 0, SaltStep, NoneNum, 0),
       nova_group |-> 4,
       allergens |-> NoneStr,
       additives_tags |-> take(AdditiveTags, 1),
       categories_tags |-> <<"en:sweetened_beverages", "en:sodas">>],
      [product_name |-> <<"O", "i", "l">>,
       ingredients_text |-> text_of(12, 0, 0),
       nutriments |-> ("saturated-fat_100g" :> SatFatStep),
       categories_tags |-> <<"fr:huiles">>],
      [product_name |-> Spell["apples"]],
      [product_name |-> NoneStr,
       brands |-> NoneStr,
       ingredients_text |-> NoneStr,
       nutriments |-> NoneMap,
       nova_group |-> NoneNum,
       additives_tags |-> NoneStr,
       categories_tags |-> NoneStr] }

\* HTTP statuses other than 200
HttpErrors == {404, 500, 503}

\* Answers to the search of one product
LookupResponses ==
    {failed_request("Timeout"), failed_request("ConnectionError"),
     http_response(200, "unparsable"), http_response(200, "not_object"),
     json_response(0, <<>>), json_response(1, <<>>), json_response(NoneNum, <<>>),
     null_products_response(0), json_response(1, <<NoneMap>>)}
    \cup {http_response(s, "unparsable") : s \in HttpErrors}
    \cup {json_response(1, <<p>>) : p \in UpstreamProducts}

\* Names looked up
ProductNames == {<<"c", "o", "l", "a">>, <<>>}
---------------------------------------------------------------------------
(* Operations of the lookups.  lookup is the running call of               *)
(* openfoodfacts_lookup: the attempt it is at and, once it is over, its    *)
(* outcome; net lists the requests sent and what the upstream answered.    *)

\* A call of openfoodfacts_lookup
OpenfoodfactsLookup ==
    /\ call.fn = "none"
    /\ \E product_name \in ProductNames :
         /\ call' = [fn |-> "openfoodfacts_lookup", product_name |-> product_name]
         /\ lookup' = [pc |-> "trying", product_name |-> product_name,
                       attempt |-> 0, outcome |-> Continue]
    /\ UNCHANGED <<result, net, run, analyzed_products>>

\* One attempt of the running call: the request is sent, the upstream
\* answers, and the call returns or goes on to its next attempt
LookupAttempt ==
    /\ lookup.pc = "trying"
    /\ \E response \in LookupResponses :
         \E step \in {lookup_attempt(lookup.attempt, response)} :
           /\ net' = Append(net, [request |-> lookup_request(lookup.product_name,
                                                             lookup.attempt),
                                  response |-> response])
           /\ lookup' = IF step.do = "continue"
                        THEN [lookup EXCEPT !.attempt = @ + 1]
                        ELSE [lookup EXCEPT !.pc = "over", !.outcome = step]
    /\ UNCHANGED <<call, result, run, analyzed_products>>

\* A call of the root agent's openfoodfacts_lookup
RootLookup ==
    /\ call.fn = "none"
    /\ \E query \in ProductNames, response \in LookupResponses :
         /\ call' = [fn |-> "root_openfoodfacts_lookup", query |-> query]
         /\ net' = Append(net, [request |-> root_lookup_request(query),
                                response |-> response])
         /\ result' = root_lookup(response)
    /\ UNCHANGED <<lookup, run, analyzed_products>>

NextLookup == OpenfoodfactsLookup \/ LookupAttempt \/ RootLookup

SpecLookup == Init /\ [][NextLookup]_vars

\* Every attempt is bounded by its timeout: requests.get returns or raises,
\* and the attempt is made
FairSpecLookup == SpecLookup /\ WF_vars(LookupAttempt)
---------------------------------------------------------------------------
(* Inputs of suggest_alternatives *)

MaxLimit == 3
MaxCandidates == 3

\* limit arguments
Limits == 0..MaxLimit

\* Products the alternatives are asked for: the records the lookup makes
\* and a dict without categories
SuggestProducts ==
    {product_record(p) : p \in UpstreamProducts}
    \cup {[product_name |-> Spell["apples"], nutrients |-> EmptyMap]}

\* A nutriments dict with sugar and salt
sugar_salt(sugar, salt) == ("sugars_100g" :> sugar) @@ ("salt_100g" :> salt)

\* Products the upstream lists as candidates: 2 g sugar and 0.125 g salt in
\* group 1; 20 g and 1.5 g in group 4; one with a name only; one without
\* a name; 5 g sugar and null salt in group 2; one with nutriments null and
\* one with nova_group null
CandidateProducts ==
    { [product_name |-> <<"A">>, brands |-> <<"a">>, nova_group |-> 1,
       nutriments |-> sugar_salt(2 * NutrientUnit, NutrientUnit \div 8)],
      [product_name |-> <<"B">>, nova_group |-> 4,
       nutriments |-> sugar_salt(20 * NutrientUnit, 3 * (NutrientUnit \div 2))],
      [product_name |-> <<"C">>],
      [product_name |-> <<>>, brands |-> <<"d">>, nova_group |-> 1,
       nutriments |-> sugar_salt(0, 0)],
      [product_name |-> <<"G">>, brands |-> NoneStr, nova_group |-> 2,
       nutriments |-> sugar_salt(5 * NutrientUnit, NoneNum)],
      [product_name |-> <<"E">>, nutriments |-> NoneMap],
      [product_name |-> <<"F">>, nova_group |-> NoneNum] }

\* Lists of at most n candidate products
RECURSIVE candidate_lists(_)
candidate_lists(n) ==
    IF n = 0 THEN {<<>>}
    ELSE candidate_lists(n - 1)
         \cup {Append(list, p) : list \in {l \in candidate_lists(n - 1) : Len(l) = n - 1},
                                 p \in CandidateProducts}

\* Searches of candidates that fail
SuggestFailures ==
    {failed_request("Timeout"), failed_request("ConnectionError"),
     http_response(200, "unparsable"), http_response(503, "unparsable"),
     http_response(200, "not_object"), null_products_response(0)}

\* Answers to the search of candidates
SuggestResponses ==
    SuggestFailures
    \cup {json_response(Len(list), list) : list \in candidate_lists(MaxCandidates)}

---------------------------------------------------------------------------
(* Operations of suggest_alternatives *)

\* One call of suggest_alternatives: the query is sent, and answered, when
\* the product has a category
SuggestAlternatives ==
    /\ call.fn = "none"
    /\ \E product_data \in SuggestProducts, limit \in Limits :
         /\ call' = [fn |-> "suggest_alternatives",
                     product_data |-> product_data, limit |-> limit]
         /\ IF suggest_queries(product_data)
            THEN \E response \in SuggestResponses :
                   /\ net' = Append(net,
                               [request |-> suggest_request(
                                   category_of(suggest_categories(product_data)),
                                   limit),
                                response |-> response])
                   /\ result' = suggest_alternatives(product_data, limit, response)
            ELSE /\ net' = net
                 /\ result' = suggest_alternatives(product_data, limit,
                                                   failed_request("none"))
    /\ UNCHANGED <<lookup, run, analyzed_products>>

\* One call of the root agent's suggest_alternatives
RootSuggestAlternatives ==
    /\ call.fn = "none"
    /\ \E record \in SuggestProducts, limit \in Limits :
         /\ call' = [fn |-> "root_suggest_alternatives",
                     record |-> record, limit |-> limit]
         /\ IF root_suggest_queries(record)
            THEN \E response \in SuggestResponses :
                   /\ net' = Append(net,
                               [request |-> root_suggest_request(
                                   category_of(record.categories), limit),
                                response |-> response])
                   /\ result' = root_suggest_alternatives(record, limit, response)
            ELSE /\ net' = net
                 /\ result' = root_suggest_alternatives(record, limit,
                                                        failed_request("none"))
    /\ UNCHANGED <<lookup, run, analyzed_products>>

NextSuggest == SuggestAlternatives \/ RootSuggestAlternatives

SpecSuggest == Init /\ [][NextSuggest]_vars
---------------------------------------------------------------------------
(* Operations of the pipeline.  run is the running call of analyze_product *)
(* or analyze_product_flow: the step it is at, the calls it has made, its  *)
(* local variables and, once it is over, what it returned.                 *)

\* Answers to the pipeline's search of candidates
RankResponses ==
    SuggestFailures
    \cup {json_response(Len(list), list) : list \in candidate_lists(1)}

\* The pipeline leaves with the results it has so far
analysis_fails_partial(calls) ==
    [run EXCEPT !.pc = "over", !.calls = calls,
                !.returned = Return(analysis_results(run.product_data,
                                      run.nova_classification, run.health_score,
                                      run.alternatives))]

\* The pipeline leaves through `return None`
analysis_fails(calls) ==
    [run EXCEPT !.pc = "over", !.calls = calls, !.returned = ReturnNone]

\* analyze_product or analyze_product_flow is called and calls
\* openfoodfacts_lookup
AnalyzeProduct ==
    /\ call.fn = "none"
    /\ \E app \in {"streamlit_app", "streamlit_app_V2"},
          product_name \in ProductNames :
         /\ call' = [fn |-> IF app = "streamlit_app" THEN "analyze_product"
                            ELSE "analyze_product_flow",
                     product_name |-> product_name]
         /\ run' = [pc |-> "fetch", app |-> app,
                    calls |-> <<[fn |-> "openfoodfacts_lookup"]>>,
                    product_data |-> Unset, nova_classification |-> Unset,
                    health_score |-> Unset, alternatives |-> Unset,
                    returned |-> Unset, session |-> Unset]
         /\ lookup' = [pc |-> "trying", product_name |-> product_name,
                       attempt |-> 0, outcome |-> Continue]
    /\ UNCHANGED <<result, net, analyzed_products>>

\* The lookup is over: on an exception or an error entry the pipeline
\* returns None, else it calls classify_nova
AnalyzeClassify ==
    /\ run.pc = "fetch"
    /\ lookup.pc = "over"
    /\ IF lookup.outcome.do = "raise"
       THEN run' = analysis_fails(run.calls)
       ELSE IF "error" \in DOMAIN lookup.outcome.value
       THEN run' = [analysis_fails(run.calls) EXCEPT
                      !.product_data = lookup.outcome.value]
       ELSE \E product_data \in {working_data(run.app, lookup.outcome.value)} :
              \E called \in {call_classify_nova(
                               get(product_data, "ingredients", <<>>),
                               get(product_data, "additives", <<>>),
                               get(product_data, "nova_group", NoneNum))} :
                \E calls \in {Append(run.calls,
                                [fn |-> "classify_nova", outcome |-> called.do])} :
                  IF called.do = "raise"
                  THEN run' = [analysis_fails(calls) EXCEPT
                                 !.product_data = product_data]
                  ELSE run' = [run EXCEPT !.pc = "score", !.calls = calls,
                                          !.product_data = product_data,
                                          !.nova_classification = called.value]
    /\ UNCHANGED <<call, result, lookup, net, analyzed_products>>

\* compute_health_score is called with the group classify_nova returned
AnalyzeScore ==
    /\ run.pc = "score"
    /\ \E nova_group \in {score_group(run.nova_classification)} :
         \E called \in {call_compute_health_score(
                          get(run.product_data, "nutrients", EmptyMap), nova_group)} :
           \E calls \in {Append(run.calls,
                           [fn |-> "compute_health_score",
                            nova_group |-> nova_group, outcome |-> called.do])} :
             IF called.do = "raise"
             THEN run' = analysis_fails(calls)
             ELSE run' = [run EXCEPT !.pc = "rank", !.calls = calls,
                                     !.health_score = called.value]
    /\ UNCHANGED <<call, result, lookup, net, analyzed_products>>

\* suggest_alternatives is called, its query answered, and the pipeline
\* returns its results
AnalyzeRank ==
    /\ run.pc = "rank"
    /\ \E response \in IF suggest_queries(run.product_data) THEN RankResponses
                       ELSE {failed_request("none")} :
         \E called \in {suggest_alternatives(run.product_data, analysis_limit,
                                             response)} :
           \E calls \in {Append(run.calls,
                           [fn |-> "suggest_alternatives", outcome |-> called.do])} :
             /\ net' = IF suggest_queries(run.product_data)
                       THEN Append(net,
                              [request |-> suggest_request(
                                  category_of(suggest_categories(run.product_data)),
                                  analysis_limit),
                               response |-> response])
                       ELSE net
             /\ IF called.do = "raise"
                THEN run' = analysis_fails(calls)
                ELSE \E results \in {analysis_results(run.product_data,
                                        run.nova_classification, run.health_score,
                                        called.value)} :
                       run' = [run EXCEPT
                                 !.pc = "over", !.calls = calls,
                                 !.alternatives = called.value,
                                 !.returned = Return(results),
                                 !.session = IF run.app = "streamlit_app_V2"
                                             THEN results ELSE Unset]
    /\ UNCHANGED <<call, result, lookup, analyzed_products>>

NextPipeline ==
    \/ AnalyzeProduct \/ LookupAttempt
    \/ AnalyzeClassify \/ AnalyzeScore \/ AnalyzeRank

SpecPipeline == Init /\ [][NextPipeline]_vars

NextRanking == SuggestAlternatives \/ NextPipeline

SpecRanking == Init /\ [][NextRanking]_vars
---------------------------------------------------------------------------
(* compute_health_score on nutriments with entries missing *)

\* One step of each nutrient
one_step ==
    nutrient_map(SugarStep, SatFatStep, SaltStep, FiberStep, ProteinStep)

\* Nutriments in which each entry is missing, null, 0 or one step
SparseNutrients ==
    UNION {{[k \in keys |-> IF f[k] = 1 THEN one_step[k] ELSE f[k]] :
              f \in [keys -> {NoneNum, 0, 1}]} :
           keys \in SUBSET DOMAIN one_step}

\* One call of compute_health_score on such nutriments
ComputeHealthScoreSparse ==
    /\ call.fn = "none"
    /\ \E nutrients \in SparseNutrients, g \in ScoreGroups :
         /\ call' = [fn |-> "compute_health_score", nutrients |-> nutrients,
                     nova_group |-> g]
         /\ result' = IF compute_health_score_raises(nutrients, g) = "none"
                      THEN compute_health_score(nutrients, g)
                      ELSE Raise(compute_health_score_raises(nutrients, g))
    /\ UNCHANGED <<lookup, net, run, analyzed_products>>

NextRecords == ClassifyNova \/ ComputeHealthScoreSparse

SpecRecords == Init /\ [][NextRecords]_vars

---------------------------------------------------------------------------
(* Comparison: src/streamlit_app.py, compare_products *)

\* analyzed_products[name] = analysis: the item of an old key is replaced
\* where it is, the item of a new key comes last
store_analysis(analyzed, name, analysis) ==
    IF \E i \in 1..Len(analyzed) : analyzed[i].name = name
    THEN [i \in 1..Len(analyzed) |->
            IF analyzed[i].name = name
            THEN [name |-> name, data |-> analysis]
            ELSE analyzed[i]]
    ELSE Append(analyzed, [name |-> name, data |-> analysis])

\* {name: data for name, data in analyzed.items()
\*  if name in product_names and not data.get("error")}, or the exception
\* data.get raises on an analysis that is None
products_to_compare(analyzed, product_names) ==
    LET asked(item) == item.name \in product_names
        usable(item) == falsy(get(item.data, "error", NoneStr))
    IN  IF \E i \in 1..Len(analyzed) :
              asked(analyzed[i]) /\ ~is_dict(analyzed[i].data)
        THEN Raise("AttributeError")
        ELSE Return(SelectSeq(SelectSeq(analyzed, asked), usable))

need_two_message ==
    <<"I need at least 2 products to compare. Please analyze the products first!">>

\* winner_score = 0; winner = None
no_winner == [winner |-> NoneStr, winner_score |-> 0]

\* The loop that looks for the winner: best is the winner so far
RECURSIVE find_winner(_, _)
find_winner(products, best) ==
    IF products = <<>> THEN best
    ELSE LET score == Head(products).data.health_score.health_score
         IN  find_winner(Tail(products),
                         IF score > best.winner_score
                         THEN [winner |-> Spell[Head(products).name],
                               winner_score |-> score]
                         ELSE best)

\* The comparison the response shows: the products of the table, one row
\* per metric, and the winner with its score as the f-string prints them
comparison(products) ==
    LET row(metric(_)) == [i \in 1..Len(products) |-> metric(products[i].data)]
        nova(data) == data.nova_classification.nova_group
        score(data) == data.health_score.health_score
        sugar(data) == data.health_score.breakdown.sugar_g_per_100g
        salt(data) == data.health_score.breakdown.salt_g_per_100g
        fat(data) == data.health_score.breakdown.saturated_fat_g_per_100g
        best == find_winner(products, no_winner)
    IN  [products |-> [i \in 1..Len(products) |-> products[i].name],
         nova_row |-> row(nova),
         score_row |-> row(score),
         sugar_row |-> row(sugar),
         salt_row |-> row(salt),
         fat_row |-> row(fat),
         winner |-> best.winner,
         winner_score |-> best.winner_score]

\* compare_products(product_names), analyzed the dict of the session
compare_products(analyzed, product_names) ==
    LET chosen == products_to_compare(analyzed, product_names)
    IN  IF chosen.do = "raise" THEN chosen
        ELSE IF Len(chosen.value) < 2 THEN Return([message |-> need_two_message])
        ELSE Return(comparison(chosen.value))

---------------------------------------------------------------------------
(* Inputs of the comparison *)

\* Names products are analysed under
AnalysedNames == {"apples", "butter", "honey"}

\* Nutriments of the products analysed: none known, 20 g of sugar, and an
\* extreme amount of fiber
AnalysedNutrients ==
    {EmptyMap, ("sugars_100g" :> 20 * NutrientUnit),
     ("fiber_100g" :> ExtremeAmount)}

\* What analyze_product and analyze_with_custom_ingredients return: the
\* four parts of an analysis, None, or a dict with an error entry
Analyses ==
    {analysis_results([product_name |-> NoneStr],
                      [nova_group |-> g],
                      compute_health_score(n, g),
                      [alternatives |-> <<>>]) :
        n \in AnalysedNutrients, g \in {1, 4}}
    \cup {NoneMap, [error |-> <<"AttributeError">>]}

---------------------------------------------------------------------------
(* Operations of the comparison *)

\* main stores the analysis of a product in the session
StoreAnalysis ==
    /\ call.fn = "none"
    /\ \E name \in AnalysedNames, analysis \in Analyses :
         analyzed_products' = store_analysis(analyzed_products, name, analysis)
    /\ UNCHANGED <<call, result, lookup, net, run>>

\* One call of compare_products.  product_names is read through `in` only
\* and is given as the set of its entries.
CompareProducts ==
    /\ call.fn = "none"
    /\ \E product_names \in SUBSET AnalysedNames :
         /\ call' = [fn |-> "compare_products", product_names |-> product_names]
         /\ result' = compare_products(analyzed_products, product_names)
    /\ UNCHANGED <<lookup, net, run, analyzed_products>>

NextCompare == StoreAnalysis \/ CompareProducts

SpecCompare == Init /\ [][NextCompare]_vars

Next ==
    \/ ClassifyNova \/ ComputeHealthScore
    \/ OpenfoodfactsLookup \/ LookupAttempt \/ RootLookup
    \/ SuggestAlternatives \/ RootSuggestAlternatives
    \/ AnalyzeProduct \/ AnalyzeClassify \/ AnalyzeScore \/ AnalyzeRank
    \/ ComputeHealthScoreSparse
    \/ StoreAnalysis \/ CompareProducts

Spec == Init /\ [][Next]_vars


---------------------------------------------------------------------------
(* Properties *)

IsNova == call.fn = "classify_nova"
IsScore == call.fn = "compute_health_score"

\* An amount as compute_health_score reads it: None counts as 0
amount_read(v) == IF v = NoneNum THEN 0 ELSE v

\* The steps the inputs of each nutrient are made of
step_of ==
    ("sugars_100g" :> SugarStep) @@ ("saturated-fat_100g" :> SatFatStep)
    @@ ("salt_100g" :> SaltStep) @@ ("fiber_100g" :> FiberStep)
    @@ ("proteins_100g" :> ProteinStep)

\* C1: whatever the ingredients text (None and empty included), the additive
\* tags and the API group, the nova_group classify_nova returns is one of 1,
\* 2, 3, 4.
C1_NovaGroupInRange ==
    IsNova => result.nova_group \in {1, 2, 3, 4}

\* C1 witness: classify_nova called with no text, no tags and no API group
C1_Witness ==
    /\ IsNova
    /\ call.ingredients_text = NoneStr
    /\ call.additives = NoneStr
    /\ call.nova_group_api = NoneNum
    /\ result.nova_group = 1

\* C2: for every nova_group (one of 1..4 or not) and all non-negative
\* nutrient amounts, extreme ones included, the health_score returned lies in
\* [0, 100] (0..1000 tenths).
C2_ScoreInRange ==
    IsScore => result.health_score \in 0..1000

\* C2 witness: penalties at an extreme amount that take a Group 4 product
\* below zero before the clamp
C2_Witness ==
    /\ IsScore
    /\ call.nova_group = 4
    /\ call.nutrients["sugars_100g"] = ExtremeAmount
    /\ call.nutrients["salt_100g"] = ExtremeAmount
    /\ amount_read(call.nutrients["fiber_100g"]) = 0
    /\ amount_read(call.nutrients["proteins_100g"]) = 0
    /\ result.health_score = 0

\* The score of C3 in units of 1 / (2 * NutrientUnit) point, from amounts in
\* 1 / NutrientUnit gram: clamp(base - min(1.5 sugar, 30) - min(2 sat_fat, 25)
\* - min(10 salt, 20) + min(2 fiber, 15) + min(0.5 protein, 10), 0, 100)
C3_Formula(nutrients, nova_group) ==
    LET N == 2 * NutrientUnit
        Min(a, b) == IF a < b THEN a ELSE b
        Max(a, b) == IF a > b THEN a ELSE b
        base == CASE nova_group = 1 -> 90 [] nova_group = 2 -> 75
                  [] nova_group = 3 -> 60 [] nova_group = 4 -> 30
                  [] OTHER -> 50
        sugar   == amount_read(nutrients["sugars_100g"])
        sat_fat == amount_read(nutrients["saturated-fat_100g"])
        salt    == amount_read(nutrients["salt_100g"])
        fiber   == amount_read(nutrients["fiber_100g"])
        protein == amount_read(nutrients["proteins_100g"])
    IN  Max(0, Min(100 * N,
            base * N - Min(3 * sugar, 30 * N) - Min(4 * sat_fat, 25 * N)
                     - Min(20 * salt, 20 * N) + Min(4 * fiber, 15 * N)
                     + Min(protein, 10 * N)))

\* C3: the health_score returned is the formula's value rounded to one
\* decimal (no tenth is nearer to it), with base 90, 75, 60, 30 for groups 1
\* to 4 and 50 for any other; with all nutrients zero it is the base exactly.
C3_ScoreFormula ==
    IsScore =>
        LET N == 2 * NutrientUnit
            exact == C3_Formula(call.nutrients, call.nova_group)
            diff == result.health_score * N - 10 * exact
        IN  /\ 2 * diff <= N
            /\ 2 * diff >= 0 - N
            /\ (\A k \in DOMAIN call.nutrients : amount_read(call.nutrients[k]) = 0)
                 => result.health_score * N = 10 * exact
                    /\ result.health_score \in {900, 750, 600, 300, 500}

\* C3 witness: a Group 3 product with the salt penalty at its cap, every
\* other adjustment at work, and a score that rounding changes
C3_Witness ==
    /\ IsScore
    /\ call.nova_group = 3
    /\ call.nutrients["sugars_100g"] = SugarStep
    /\ call.nutrients["saturated-fat_100g"] = SatFatStep
    /\ call.nutrients["salt_100g"] = ExtremeAmount
    /\ call.nutrients["fiber_100g"] = FiberStep
    /\ call.nutrients["proteins_100g"] = ProteinStep
    /\ result.health_score \in 1..999
    /\ result.health_score * 2 * NutrientUnit
         # 10 * C3_Formula(call.nutrients, call.nova_group)

\* The health_score compute_health_score returns for the nutrients n
C4_ScoreOf(n) == py_round(running_score(n, call.nova_group), ScoreUnit, 1)

\* C4: with the group and the other four nutrients as they are, more sugar,
\* saturated fat or salt never gives a higher score, and more fiber or
\* protein never a lower one.
C4_Monotone ==
    IsScore =>
        \A k \in DOMAIN call.nutrients :
            \A v \in amounts(step_of[k]) :
                (v # NoneNum /\ v >= amount_read(call.nutrients[k])) =>
                    \A more \in {[call.nutrients EXCEPT ![k] = v]} :
                        IF k \in {"sugars_100g", "saturated-fat_100g", "salt_100g"}
                        THEN C4_ScoreOf(more) <= result.health_score
                        ELSE C4_ScoreOf(more) >= result.health_score

\* C4 witness: a product that more sugar scores strictly lower and more
\* fiber strictly higher
C4_Witness ==
    /\ IsScore
    /\ call.nutrients["sugars_100g"] = SugarStep
    /\ call.nutrients["fiber_100g"] = FiberStep
    /\ \E more \in {[call.nutrients EXCEPT !["sugars_100g"] = 2 * SugarStep]} :
         C4_ScoreOf(more) < result.health_score
    /\ \E more \in {[call.nutrients EXCEPT !["fiber_100g"] = 2 * FiberStep]} :
         C4_ScoreOf(more) > result.health_score

\* The band of a health_score given in tenths
C5_Band(health_score) ==
    IF health_score >= 800 THEN "Excellent"
    ELSE IF health_score >= 650 THEN "Good"
    ELSE IF health_score >= 500 THEN "Fair"
    ELSE "Poor"

\* The first word of an interpretation
C5_Word(interpretation) ==
    CASE interpretation = "Excellent - Whole food, minimal processing" -> "Excellent"
      [] interpretation = "Good - Moderately processed" -> "Good"
      [] interpretation = "Fair - Processed food, consume in moderation" -> "Fair"
      [] interpretation = "Poor - Ultra-processed, limit consumption" -> "Poor"

\* C5: the interpretation returned is the band of the health_score returned:
\* Excellent iff health_score >= 80, Good iff 65 <= health_score < 80, Fair
\* iff 50 <= health_score < 65, Poor iff health_score < 50.
C5_InterpretationIsBandOfReturnedScore ==
    IsScore => C5_Word(result.interpretation) = C5_Band(result.health_score)

\* The lower-cased text of the call, "" for None
TextRead == IF call.ingredients_text = NoneStr THEN <<>> ELSE lower(call.ingredients_text)

\* The estimated ingredient count of a text: commas + 1, 0 for the empty text
CountOf(text) ==
    IF text = <<>> THEN 0 ELSE Cardinality({k \in 1..Len(text) : text[k] = ","}) + 1

\* The text contains one of the markers
HasMarker(text, markers) ==
    \E k \in 1..Len(markers) : contains(text, Spell[markers[k]])

\* The cases of tier 4: the API group is 4, an industrial-substance marker
\* is present or the count is at least 5; or none of these, and a cosmetic or
\* sensory marker is present with a count of at most 3
Tier4Case(text, hint) ==
    \/ hint = 4
    \/ HasMarker(text, group_4_substances)
    \/ CountOf(text) >= 5
    \/ HasMarker(text, cosmetic_additives) /\ CountOf(text) <= 3

\* The case of tier 3: at least 2 ingredients and a culinary marker
Tier3Case(text) ==
    CountOf(text) >= 2 /\ HasMarker(text, group_2_ingredients)

\* The text is one of the ten culinary markers and nothing else
SingleMarker(text) ==
    \E k \in 1..Len(group_2_ingredients) : text = Spell[group_2_ingredients[k]]

\* "w1, w2, ...": the text listing the given ingredients
ListOf(words) ==
    concat(join(<<",", " ">>, [k \in 1..Len(words) |-> Spell[words[k]]]))

\* C6: classify_nova returns tier 4 in exactly the cases of Tier4Case.
C6_Tier4Cases ==
    IsNova =>
        \A text \in {TextRead} :
            result.nova_group = 4 <=> Tier4Case(text, call.nova_group_api)

\* C6 witness: "colour, water", two ingredients with a cosmetic marker, no
\* industrial one and no API group, is tier 4
C6_Witness ==
    /\ IsNova
    /\ call.ingredients_text = ListOf(<<"colour", "water">>)
    /\ call.nova_group_api = NoneNum
    /\ ~HasMarker(TextRead, group_4_substances)
    /\ result.nova_group = 4

\* C7: when no tier-4 case applies, classify_nova returns tier 3 if and only
\* if the count is at least 2 and the text contains a culinary marker, also
\* when the tier-2 rule would apply.
C7_Tier3Rule ==
    IsNova =>
        \A text \in {TextRead} :
            ~Tier4Case(text, call.nova_group_api) =>
                (result.nova_group = 3 <=> Tier3Case(text))

\* C7 witness: "olive oil, salt" is tier 3
C7_Witness ==
    /\ IsNova
    /\ call.ingredients_text = ListOf(<<"olive oil", "salt">>)
    /\ call.nova_group_api = NoneNum
    /\ result.nova_group = 3
    /\ result.ingredient_count = 2

\* C8: when no tier-4 and no tier-3 case applies, a text that is just one of
\* the ten culinary markers ("sugar", "salt", "honey", ...) is tier 2.
C8_SingleMarkerIsTier2 ==
    IsNova =>
        \A text \in {TextRead} :
            (/\ ~Tier4Case(text, call.nova_group_api)
             /\ ~Tier3Case(text)
             /\ SingleMarker(text))
                => result.nova_group = 2

\* scan_text of every input text, computed once
ScanTable == [t \in IngredientTexts |-> scan_text(t)]

\* The note on an API group that differs
NoteOn(hint) ==
    <<" (Note: Open Food Facts classifies as Group ", ToString(hint), ")">>

\* C9: with an API group other than 4 the tier is the one computed without
\* any API group, the same for None, 1, 2 and 3; an API group that differs
\* from it adds the note naming it to the reasoning and changes nothing else.
C9_HintAdvisory ==
    (IsNova /\ call.nova_group_api # 4) =>
        \A s \in {ScanTable[call.ingredients_text]} :
            LET hint == call.nova_group_api
                computed == classify_scanned(s, call.additives, NoneNum)
                n == Len(result.reasoning)
            IN  /\ \A h2 \in ApiGroups \ {4} :
                      classify_scanned(s, call.additives, h2).nova_group
                          = result.nova_group
                /\ result.nova_group = computed.nova_group
                /\ IF hint # NoneNum /\ hint # computed.nova_group
                   THEN /\ n > 3
                        /\ SubSeq(result.reasoning, n - 2, n) = NoteOn(hint)
                        /\ strip(SubSeq(result.reasoning, 1, n - 3))
                             = computed.reasoning
                   ELSE result.reasoning = computed.reasoning

\* C9 witness: "apples" with API group 2 stays tier 1 and carries the note
C9_Witness ==
    /\ IsNova
    /\ call.ingredients_text = ListOf(<<"apples">>)
    /\ call.nova_group_api = 2
    /\ result.nova_group = 1
    /\ SubSeq(result.reasoning, Len(result.reasoning) - 2, Len(result.reasoning))
         = NoteOn(2)

\* C10: the additive tags change neither the tier nor the ingredient count;
\* an empty text with an API group other than 4 has ingredient_count 0 and
\* tier 1 whatever the tags.
C10_AdditivesDoNotDecide ==
    IsNova =>
        \A s \in {ScanTable[call.ingredients_text]} :
            /\ \A a2 \in AdditiveLists :
                 LET other == classify_scanned(s, a2, call.nova_group_api)
                 IN  /\ other.nova_group = result.nova_group
                     /\ other.ingredient_count = result.ingredient_count
            /\ (call.ingredients_text \in {NoneStr, <<>>} /\ call.nova_group_api # 4)
                 => result.ingredient_count = 0 /\ result.nova_group = 1

\* C10 witness: the empty text with an additive tag and no API group
C10_Witness ==
    /\ IsNova
    /\ call.ingredients_text = <<>>
    /\ call.additives = take(AdditiveTags, 1)
    /\ call.nova_group_api = NoneNum
    /\ result.additive_count = 1
    /\ result.ingredient_count = 0
    /\ result.nova_group = 1

---------------------------------------------------------------------------
(* Properties of suggest_alternatives *)

IsSuggest == call.fn = "suggest_alternatives"
IsRootSuggest == call.fn = "root_suggest_alternatives"

\* The product the alternatives were asked for
ProductAsked == IF IsSuggest THEN call.product_data ELSE call.record

\* The candidates of the answer that have a name
NamedCandidates(response) ==
    SelectSeq(response.products,
              LAMBDA p : is_dict(p) /\ ~falsy(get(p, "product_name", NoneStr)))

\* C11: for every limit >= 0 and every list of candidates the upstream
\* answers with, the alternatives suggest_alternatives returns (either
\* variant) are at most limit.
C11_AtMostLimit ==
    (IsSuggest \/ IsRootSuggest) =>
        (result.do = "return" => Len(result.value.alternatives) <= call.limit)

\* Three named candidates were listed and one was asked for and returned
C11_Witness ==
    /\ IsSuggest
    /\ call.limit = 1
    /\ Len(net) = 1
    /\ Len(NamedCandidates(net[1].response)) = 3
    /\ result.do = "return"
    /\ Len(result.value.alternatives) = 1

\* C12: for a product whose categories are empty, absent or null,
\* suggest_alternatives (either variant) returns an empty list of
\* alternatives with a message and without an error entry, and has sent no
\* request.
C12_NoCategoriesGivesMessage ==
    ((IsSuggest \/ IsRootSuggest)
       /\ falsy(get(ProductAsked, "categories", NoneStr)))
    => /\ result.do = "return"
       /\ result.value.alternatives = <<>>
       /\ "message" \in DOMAIN result.value
       /\ "error" \notin DOMAIN result.value
       /\ net = <<>>

\* What the analysed product holds of a nutrient
OwnAmount(key) ==
    read_nutrient(get(ProductAsked, "nutrients", EmptyMap), key)

\* C19: every alternative suggest_alternatives returns (either variant) is
\* a candidate whose sugar and salt per 100g do not exceed those of the
\* product the alternatives were asked for.
C19_AlternativesNotAboveProduct ==
    ((IsSuggest \/ IsRootSuggest) /\ result.do = "return") =>
        \A i \in 1..Len(result.value.alternatives) :
            \E j \in 1..Len(NamedCandidates(net[1].response)) :
                LET p == NamedCandidates(net[1].response)[j]
                IN  /\ p.product_name = result.value.alternatives[i].name
                    /\ read_nutrient(get(p, "nutriments", EmptyMap), "sugars_100g")
                         <= OwnAmount("sugars_100g")
                    /\ read_nutrient(get(p, "nutriments", EmptyMap), "salt_100g")
                         <= OwnAmount("salt_100g")
---------------------------------------------------------------------------
(* Properties of the lookups *)

\* The requests a call of openfoodfacts_lookup has sent, in order
SentByLookup(exchange) == exchange.request.by = "openfoodfacts_lookup"
LookupRequests ==
    LET sent == SelectSeq(net, SentByLookup)
    IN  [i \in 1..Len(sent) |-> sent[i].request]

\* The upstream answered request i with a parsed result that lists no product
AnsweredNoProduct(i) ==
    /\ net[i].response.exc = "none"
    /\ net[i].response.status_code = 200
    /\ net[i].response.body \in {"object", "null_products"}
    /\ net[i].response.products = <<>>

\* Request i failed: a timeout, another exception, or an HTTP error status
AttemptFailed(i) ==
    \/ net[i].response.exc # "none"
    \/ net[i].response.status_code # 200
    \/ net[i].response.body \in {"unparsable", "not_object"}

LookupOver == lookup.pc = "over"

IsProductRecord(value) ==
    DOMAIN value = {"product_name", "brand", "ingredients", "ingredients_list",
                    "nutrients", "nova_group", "allergens", "additives",
                    "categories"}

IsRootProductRecord(value) ==
    DOMAIN value = {"name", "brand", "ingredients_text", "nutriments",
                    "categories", "source"}

\* C14: whatever the upstream does at each attempt (a product, no product,
\* an HTTP error status, a timeout, a connection error, a body that cannot
\* be parsed), a call of openfoodfacts_lookup that is over has returned, not
\* raised, and what it returned is a product record or a dict with an error
\* entry; the same holds for the root agent's openfoodfacts_lookup.
C14_LookupNeverRaises ==
    /\ LookupOver =>
         /\ lookup.outcome.do = "return"
         /\ \/ "error" \in DOMAIN lookup.outcome.value
            \/ IsProductRecord(lookup.outcome.value)
    /\ call.fn = "root_openfoodfacts_lookup" =>
         /\ result.do = "return"
         /\ \/ "error" \in DOMAIN result.value
            \/ IsRootProductRecord(result.value)

\* A call that met a connection error after an attempt that found nothing
C14_Witness ==
    /\ LookupOver
    /\ Len(net) = 2
    /\ AnsweredNoProduct(1)
    /\ net[2].response.exc = "ConnectionError"
    /\ "error" \in DOMAIN lookup.outcome.value

\* C15: a call of openfoodfacts_lookup sends at most 3 requests, the first
\* with a timeout of 15 s, the second of 20 s, the third of 25 s, and
\* whatever the upstream answers the call comes to its end.
C15_BoundedAttempts ==
    /\ [](/\ Len(LookupRequests) <= 3
          /\ \A i \in 1..Len(LookupRequests) :
               /\ LookupRequests[i].timeout = <<15, 20, 25>>[i]
               /\ i > 1 => LookupRequests[i].timeout > LookupRequests[i - 1].timeout)
    /\ (lookup.pc = "trying" ~> LookupOver)

\* Three requests were sent and the call is over
C15_Witness ==
    /\ LookupOver
    /\ Len(LookupRequests) = 3
    /\ lookup.outcome.do = "return"

\* C16: 'No product found' is returned only when the upstream answered a
\* request successfully with no matching product; a call whose attempts
\* all failed (timeout, HTTP error status, exception) does not return it.
C16_NotFoundOnlyWhenAnswered ==
    (LookupOver /\ lookup.outcome.do = "return"
       /\ lookup.outcome.value = no_product_error)
    => /\ \E i \in 1..Len(net) : AnsweredNoProduct(i)
       /\ ~ \A i \in 1..Len(net) : AttemptFailed(i)
---------------------------------------------------------------------------
(* Properties of the pipeline *)

RunOver == run.pc = "over"

\* The pipeline returned a result with its four parts, each the value the
\* call of its step returned
CompleteResult ==
    /\ run.returned.do = "return"
    /\ DOMAIN run.returned.value =
         {"product_data", "nova_classification", "health_score", "alternatives"}
    /\ DOMAIN lookup.outcome.value \subseteq DOMAIN run.returned.value.product_data
    /\ IsProductRecord(lookup.outcome.value)
    /\ "nova_group" \in DOMAIN run.returned.value.nova_classification
    /\ "health_score" \in DOMAIN run.returned.value.health_score
    /\ "alternatives" \in DOMAIN run.returned.value.alternatives

\* The pipeline returned None
NoResult == run.returned = ReturnNone

\* A product of the answer that is no candidate record: nutriments or
\* nova_group null, or no object at all
Malformed(p) ==
    \/ ~is_dict(p)
    \/ ~is_dict(get(p, "nutriments", EmptyMap))
    \/ get(p, "nova_group", 4) = NoneNum

\* The search of candidates failed: a network error, a timeout, a body that
\* cannot be parsed or holds no list of products, a malformed candidate
QueryFailed(response) ==
    \/ response.exc # "none"
    \/ response.body # "object"
    \/ \E i \in 1..Len(response.products) : Malformed(response.products[i])

\* The exchange of the candidate query, the last of the requests sent
RankExchange == net[Len(net)]
RankQueried ==
    net # <<>> /\ RankExchange.request.by = "suggest_alternatives"

\* C13: when the candidate query of suggest_alternatives fails (network
\* error, timeout, unparsable answer, malformed candidate record) the call
\* returns an empty list of alternatives and raises nothing, and the
\* pipeline that made the call returns a complete result with product data,
\* classification and health score.
C13_QueryFailureGivesEmptyList ==
    /\ (IsSuggest /\ RankQueried /\ QueryFailed(RankExchange.response)) =>
          /\ result.do = "return"
          /\ result.value.alternatives = <<>>
    /\ (RunOver /\ RankQueried /\ QueryFailed(RankExchange.response)) =>
          /\ CompleteResult
          /\ run.returned.value.alternatives.alternatives = <<>>
          /\ run.calls[Len(run.calls)].outcome = "return"

\* The pipeline is over after a candidate query answered with a malformed
\* candidate record
C13_Witness ==
    /\ RunOver
    /\ RankQueried
    /\ RankExchange.response.exc = "none"
    /\ RankExchange.response.body = "object"
    /\ QueryFailed(RankExchange.response)
    /\ CompleteResult

\* The steps of the pipeline, in order
PipelineSteps ==
    <<"openfoodfacts_lookup", "classify_nova", "compute_health_score",
      "suggest_alternatives">>

\* C17: the calls the pipeline has made are the first steps of fetch,
\* classify, score, rank in this order, none made twice; classify_nova is
\* called only once the lookup has returned a record without error,
\* compute_health_score only once classify_nova has returned and with the
\* group it returned, suggest_alternatives only once compute_health_score
\* has returned.
C17_StepsInOrder ==
    /\ Len(run.calls) <= Len(PipelineSteps)
    /\ \A i \in 1..Len(run.calls) : run.calls[i].fn = PipelineSteps[i]
    /\ Len(run.calls) >= 2 =>
         /\ LookupOver
         /\ lookup.outcome.do = "return"
         /\ "error" \notin DOMAIN lookup.outcome.value
    /\ Len(run.calls) >= 3 =>
         /\ run.calls[2].outcome = "return"
         /\ run.calls[3].nova_group = run.nova_classification.nova_group
    /\ Len(run.calls) >= 4 => run.calls[3].outcome = "return"

\* All four steps were made, the score computed for a group other than 4
C17_Witness ==
    /\ RunOver
    /\ Len(run.calls) = 4
    /\ run.calls[3].nova_group = 1
    /\ run.app = "streamlit_app_V2"

\* C18: a run of the pipeline that is over has returned either a result
\* with all four parts or None, never both and never a result with only
\* some of the parts; after a lookup that returned an error no other step
\* was called and None is returned; a run that made fewer than the four
\* calls returns None.
C18_CompleteOrNothing ==
    RunOver =>
        /\ (CompleteResult /\ Len(run.calls) = 4) \/ NoResult
        /\ ~(CompleteResult /\ NoResult)
        /\ "error" \in DOMAIN lookup.outcome.value =>
             /\ NoResult
             /\ Len(run.calls) = 1
        /\ Len(run.calls) < 4 => NoResult

\* A run that ended without result after classify_nova and
\* compute_health_score were called
C18_Witness ==
    /\ RunOver
    /\ NoResult
    /\ Len(run.calls) = 3
---------------------------------------------------------------------------
(* Properties of classify_nova and compute_health_score on records with    *)
(* absent or null fields                                                   *)

\* The nutrient is missing or null in the nutriments of the call
AbsentOrNull(key) ==
    key \notin DOMAIN call.nutrients \/ call.nutrients[key] = NoneNum

\* The nutriments of the call with the nutrient at 0
WithZero(key) == (key :> 0) @@ call.nutrients

\* C20: classify_nova returns a result, raising nothing, whatever the text
\* (null included), the additive list (null or empty included) and the hint
\* (none included); compute_health_score returns a result, raising nothing,
\* for nutriments in which any entry is missing or null, and the score,
\* interpretation and breakdown it returns are those it returns with that
\* entry at 0.
C20_TotalOverAbsentFields ==
    /\ IsNova =>
         /\ "nova_group" \in DOMAIN result
         /\ "do" \notin DOMAIN result
    /\ IsScore =>
         /\ "health_score" \in DOMAIN result
         /\ "do" \notin DOMAIN result
         /\ \A i \in 1..Len(nutrient_keys) :
              AbsentOrNull(nutrient_keys[i]) =>
                result = compute_health_score(WithZero(nutrient_keys[i]),
                                              call.nova_group)

\* A score computed from nutriments with sugar missing, salt null and the
\* other entries at work
C20_Witness ==
    /\ IsScore
    /\ DOMAIN call.nutrients =
         {"saturated-fat_100g", "salt_100g", "fiber_100g", "proteins_100g"}
    /\ call.nutrients["salt_100g"] = NoneNum
    /\ call.nutrients["saturated-fat_100g"] = SatFatStep
    /\ call.nutrients["fiber_100g"] = FiberStep
    /\ call.nova_group = NoneNum
    /\ result.health_score \in 1..999
---------------------------------------------------------------------------
(* Properties of the key indicators of classify_nova *)

\* The markers of every vocabulary of classify_nova
AllMarkers ==
    group_4_substances \o cosmetic_additives \o group_2_ingredients
    \o group_3_additives

\* The tier of the result was decided by a marker found in the text: tier 4
\* through an industrial or a cosmetic/sensory marker, tier 3 through a
\* culinary marker
DecidedByMarker(text) ==
    \/ /\ result.nova_group = 4
       /\ \/ HasMarker(text, group_4_substances)
          \/ /\ call.nova_group_api # 4
             /\ CountOf(text) < 5
             /\ HasMarker(text, cosmetic_additives)
    \/ /\ result.nova_group = 3
       /\ HasMarker(text, group_2_ingredients)

\* The key indicators are at most 5 markers of the vocabularies, each
\* occurring in the text, none twice, in the order of their vocabulary
C21_IndicatorsAreMarkers ==
    IsNova =>
        \A text \in {TextRead} :
            /\ Len(result.key_indicators) <= 5
            /\ \A i \in 1..Len(result.key_indicators) :
                 \E k \in 1..Len(AllMarkers) :
                   /\ AllMarkers[k] = result.key_indicators[i]
                   /\ contains(text, Spell[AllMarkers[k]])
            /\ \A i, j \in 1..Len(result.key_indicators) :
                 i < j =>
                   \E k, l \in 1..Len(AllMarkers) :
                     /\ k < l
                     /\ AllMarkers[k] = result.key_indicators[i]
                     /\ AllMarkers[l] = result.key_indicators[j]

\* C21: the key_indicators classify_nova returns are at most 5 vocabulary
\* markers that occur in the text, in the order matched, and there is at
\* least one whenever the tier was decided by a marker match (tier 4 through
\* an industrial or a cosmetic/sensory marker, tier 3 through a culinary
\* marker).
C21_KeyIndicatorsReflectMarkers ==
    /\ C21_IndicatorsAreMarkers
    /\ IsNova =>
         \A text \in {TextRead} :
             DecidedByMarker(text) => result.key_indicators # <<>>
---------------------------------------------------------------------------
(* Properties of the ranking of suggest_alternatives *)

\* The exchange of the call of suggest_alternatives, when it sent its query
Queried == IsSuggest /\ net # <<>>

\* The query was answered with a list of well-formed candidates
Answered == Queried /\ ~QueryFailed(net[1].response)

\* The tier of an upstream candidate, 4 when the source omits it
TierOf(p) == IF "nova_group" \in DOMAIN p THEN p.nova_group ELSE 4

\* What an upstream candidate holds of a nutrient, in 1/NutrientUnit gram
AmountOf(p, key) ==
    IF "nutriments" \notin DOMAIN p THEN 0
    ELSE IF key \notin DOMAIN p.nutriments THEN 0
    ELSE IF p.nutriments[key] = NoneNum THEN 0
    ELSE p.nutriments[key]

\* The composite score sugar + salt + 10 * tier of an upstream candidate,
\* in 1/NutrientUnit
CompositeOf(p) ==
    AmountOf(p, "sugars_100g") + AmountOf(p, "salt_100g")
    + 10 * TierOf(p) * NutrientUnit

\* The ways to pick n of the m named candidates, each at most once
Picks(n, m) ==
    {f \in [1..n -> 1..m] : \A i, j \in 1..n : i # j => f[i] # f[j]}

\* C22: the alternatives suggest_alternatives returns are the first `limit`
\* of the upstream candidates with a non-empty name in ascending order of
\* the composite score sugar + salt + 10 * tier: each has a name, they are
\* min(limit, number of named candidates) of the named candidates, their
\* composite scores do not decrease, and no named candidate left out has a
\* lower composite score than one returned.
C22_FirstByCompositeScore ==
    Answered =>
        \A named \in {NamedCandidates(net[1].response)} :
            LET alternatives == result.value.alternatives
                n == Len(alternatives)
            IN  /\ result.do = "return"
                /\ n = min(call.limit, Len(named))
                /\ \A i \in 1..n : ~falsy(alternatives[i].name)
                /\ \E pick \in Picks(n, Len(named)) :
                     /\ \A i \in 1..n :
                          alternatives[i].name = named[pick[i]].product_name
                     /\ \A i \in 1..(n - 1) :
                          CompositeOf(named[pick[i]])
                            <= CompositeOf(named[pick[i + 1]])
                     /\ \A j \in 1..Len(named) :
                          (\A i \in 1..n : pick[i] # j) =>
                              \A i \in 1..n :
                                  CompositeOf(named[j])
                                    >= CompositeOf(named[pick[i]])

\* The upstream listed the candidate of 20 g sugar, 1.5 g salt and tier 4
\* ahead of the one of 2 g sugar, 0.125 g salt and tier 1, and a third one;
\* two were asked for, and the tier 1 candidate is returned first
C22_Witness ==
    /\ Answered
    /\ call.limit = 2
    /\ Len(net[1].response.products) = 3
    /\ net[1].response.products[1].product_name = <<"B">>
    /\ net[1].response.products[2].product_name = <<"A">>
    /\ net[1].response.products[3].product_name = <<"C">>
    /\ result.do = "return"
    /\ Len(result.value.alternatives) = 2
    /\ result.value.alternatives[1].name = <<"A">>
    /\ result.value.alternatives[2].name = <<"C">>

\* The upstream candidate gives no tier: its record has no nova_group entry
NoTier(p) == "nova_group" \notin DOMAIN p

\* The named candidates that come before candidate j in the ranking: a
\* lower composite score, or the same and listed earlier
Ahead(named, j, composite) ==
    {k \in 1..Len(named) :
        \/ CompositeOf(named[k]) < composite
        \/ CompositeOf(named[k]) = composite /\ k < j}

ReasonFor(low_tier, low_sugar, low_salt) ==
    CASE low_tier /\ low_sugar /\ low_salt ->
           <<"minimally processed", ", ", "low sugar", ", ", "low salt">>
      [] low_tier /\ low_sugar /\ ~low_salt ->
           <<"minimally processed", ", ", "low sugar">>
      [] low_tier /\ ~low_sugar /\ low_salt ->
           <<"minimally processed", ", ", "low salt">>
      [] low_tier /\ ~low_sugar /\ ~low_salt -> <<"minimally processed">>
      [] ~low_tier /\ low_sugar /\ low_salt -> <<"low sugar", ", ", "low salt">>
      [] ~low_tier /\ low_sugar /\ ~low_salt -> <<"low sugar">>
      [] ~low_tier /\ ~low_sugar /\ low_salt -> <<"low salt">>
      [] OTHER -> <<"healthier nutritional profile">>

\* The conditions of an upstream candidate: tier <= 2, sugar < 5 g,
\* salt < 0.5 g
LowTier(p) == TierOf(p) <= 2
LowSugar(p) == AmountOf(p, "sugars_100g") < 5 * NutrientUnit
LowSalt(p) == 2 * AmountOf(p, "salt_100g") < NutrientUnit

\* C24: the reason of every alternative returned is the comma-joined list
\* of exactly those of "minimally processed" (tier <= 2), "low sugar"
\* (sugar < 5) and "low salt" (salt < 0.5) that hold for its candidate, in
\* this order; it is 'healthier nutritional profile' if and only if none
\* holds, and it is never empty.
C24_ReasonListsConditions ==
    Answered =>
        \A named \in {NamedCandidates(net[1].response)} :
            \A i \in 1..Len(result.value.alternatives) :
                LET alternative == result.value.alternatives[i]
                IN  /\ alternative.reason # <<>>
                    /\ \E j \in 1..Len(named) :
                         named[j].product_name = alternative.name
                    /\ \A j \in 1..Len(named) :
                         named[j].product_name = alternative.name =>
                           /\ alternative.reason
                                = ReasonFor(LowTier(named[j]), LowSugar(named[j]),
                                            LowSalt(named[j]))
                           /\ alternative.reason = <<"healthier nutritional profile">>
                                <=> (~LowTier(named[j]) /\ ~LowSugar(named[j])
                                     /\ ~LowSalt(named[j]))

\* Three alternatives are returned: one with all three reasons, one of
\* tier 2 with exactly 5 g of sugar and no salt entry, and one for which
\* none of the conditions holds
C24_Witness ==
    /\ Answered
    /\ Len(result.value.alternatives) = 3
    /\ result.value.alternatives[1].name = <<"A">>
    /\ result.value.alternatives[1].reason
         = <<"minimally processed", ", ", "low sugar", ", ", "low salt">>
    /\ result.value.alternatives[2].name = <<"G">>
    /\ result.value.alternatives[2].reason
         = <<"minimally processed", ", ", "low salt">>
    /\ result.value.alternatives[3].name = <<"B">>
    /\ result.value.alternatives[3].reason = <<"healthier nutritional profile">>
---------------------------------------------------------------------------
(* Properties of the candidate query *)

\* A tag without its namespace prefix: what follows the first ":", the
\* whole tag when it has none
WithoutPrefix(tag) ==
    IF \E k \in 1..Len(tag) : tag[k] = ":"
    THEN SubSeq(tag, (CHOOSE k \in 1..Len(tag) :
                        tag[k] = ":" /\ \A j \in 1..(k - 1) : tag[j] # ":") + 1,
                Len(tag))
    ELSE tag

\* A text with each underscore turned into a space
Spaced(text) == [k \in 1..Len(text) |-> IF text[k] = "_" THEN " " ELSE text[k]]

\* C25: the category suggest_alternatives (either variant) queries is the
\* product's first category tag without its namespace prefix, whatever the
\* prefix ("en:", "fr:"), and with underscores turned into spaces; no later
\* tag is used, one query is sent, and it asks for 3 * limit candidates.
C25_QueryOfFirstCategory ==
    ((IsSuggest \/ IsRootSuggest) /\ net # <<>>) =>
        /\ Len(net) = 1
        /\ net[1].request.search_terms
             = Spaced(WithoutPrefix(Spell[ProductAsked.categories[1]]))
        /\ net[1].request.page_size = 3 * call.limit
---------------------------------------------------------------------------
(* Properties of the ranking step of the pipeline *)

\* The pipeline has classified the product, and the tier it found
Classified == "nova_group" \in DOMAIN run.nova_classification
ClassifiedAs(tiers) == Classified /\ run.nova_classification.nova_group \in tiers

\* The pipeline has called suggest_alternatives
RankCalled ==
    \E i \in 1..Len(run.calls) : run.calls[i].fn = "suggest_alternatives"

\* A candidate query was sent to the upstream
CandidateQuerySent ==
    \E i \in 1..Len(net) : net[i].request.by = "suggest_alternatives"

\* C26: the pipeline calls suggest_alternatives only for a product
\* classified tier 3 or 4; for a product classified tier 1 or 2 the call is
\* not made and no candidate query is sent.
C26_RankOnlyAboveTier2 ==
    /\ RankCalled => ClassifiedAs({3, 4})
    /\ ClassifiedAs({1, 2}) => ~RankCalled /\ ~CandidateQuerySent
---------------------------------------------------------------------------
(* Properties of the attempts of openfoodfacts_lookup *)

\* What the upstream answered to the requests of the call, in order
LookupAnswers ==
    LET sent == SelectSeq(net, SentByLookup)
    IN  [i \in 1..Len(sent) |-> sent[i].response]

\* The answer is HTTP 200 with a list of products that is not empty
FoundProduct(r) ==
    /\ r.exc = "none"
    /\ r.status_code = 200
    /\ r.body = "object"
    /\ r.products # <<>>
    /\ is_dict(r.products[1])

\* The attempt timed out
TimedOut(r) == r.exc = "Timeout"

\* The attempt got an HTTP status other than 200, or HTTP 200 with no
\* product listed
NothingFound(r) ==
    /\ r.exc = "none"
    /\ \/ r.status_code # 200
       \/ r.body \in {"object", "null_products"} /\ r.products = <<>>

\* The attempt raised an exception other than a timeout: the request failed,
\* or the body of an HTTP 200 answer is not the JSON it should be
OtherException(r) ==
    \/ r.exc \notin {"none", "Timeout"}
    \/ /\ r.exc = "none"
       /\ r.status_code = 200
       /\ \/ r.body \in {"unparsable", "not_object"}
          \/ r.body = "object" /\ r.products # <<>> /\ ~is_dict(r.products[1])

\* C27: the attempts of openfoodfacts_lookup end as soon as the outcome is
\* decided.  An attempt answered HTTP 200 with a non-empty product list is
\* the last one and the record of its first product is returned; an attempt
\* that raised another exception than a timeout is the last one and an
\* error is returned; an attempt is followed by another one only if it is
\* the first or second and timed out, got a non-200 status or an empty
\* list, and then it is followed by one; the timed-out error is returned
\* only after three attempts the third of which timed out.
C27_AttemptsEndWhenDecided ==
    \A answers \in {LookupAnswers} :
        /\ \A i \in 1..Len(answers) :
             /\ FoundProduct(answers[i]) =>
                  /\ i = Len(answers)
                  /\ LookupOver
                  /\ lookup.outcome
                       = Return(product_record(answers[i].products[1]))
             /\ OtherException(answers[i]) =>
                  /\ i = Len(answers)
                  /\ LookupOver
                  /\ lookup.outcome.do = "return"
                  /\ DOMAIN lookup.outcome.value = {"error"}
                  /\ lookup.outcome.value \notin {timed_out_error, no_product_error}
             /\ i < Len(answers) =>
                  /\ i <= 2
                  /\ TimedOut(answers[i]) \/ NothingFound(answers[i])
             /\ (i <= 2 /\ (TimedOut(answers[i]) \/ NothingFound(answers[i]))) =>
                  (i < Len(answers) \/ lookup.pc = "trying")
        /\ (LookupOver /\ lookup.outcome = Return(timed_out_error)) =>
             /\ Len(answers) = 3
             /\ TimedOut(answers[3])

\* The first attempt timed out, the second got an empty list, the third
\* found a product, whose record is returned
C27_Witness ==
    /\ LookupOver
    /\ Len(LookupAnswers) = 3
    /\ TimedOut(LookupAnswers[1])
    /\ NothingFound(LookupAnswers[2])
    /\ LookupAnswers[2].status_code = 200
    /\ FoundProduct(LookupAnswers[3])
    /\ IsProductRecord(lookup.outcome.value)
---------------------------------------------------------------------------
(* Properties of the score of a tier 4 product *)

\* C28: for nova_group 4 and all non-negative nutrient amounts, the
\* health_score compute_health_score returns is at most 55 and the
\* interpretation is Fair or Poor, never Good or Excellent.
C28_Tier4NeverGood ==
    (IsScore /\ call.nova_group = 4) =>
        /\ result.health_score <= 550
        /\ C5_Word(result.interpretation) \in {"Fair", "Poor"}

\* A tier 4 product with no sugar, saturated fat or salt and both bonuses
\* at their caps scores 55 and is rated Fair
C28_Witness ==
    /\ IsScore
    /\ call.nova_group = 4
    /\ amount_read(call.nutrients["sugars_100g"]) = 0
    /\ amount_read(call.nutrients["saturated-fat_100g"]) = 0
    /\ amount_read(call.nutrients["salt_100g"]) = 0
    /\ call.nutrients["fiber_100g"] = ExtremeAmount
    /\ call.nutrients["proteins_100g"] = ExtremeAmount
    /\ result.health_score = 550
    /\ C5_Word(result.interpretation) = "Fair"
---------------------------------------------------------------------------
(* Properties of the tier as ingredients are added *)

\* The markers of the vocabularies that occur in each input text
MarkerTable ==
    [t \in IngredientTexts |->
        UNION {{k \in 1..Len(AllMarkers) : contains(ing, Spell[AllMarkers[k]])} :
               ing \in {normalise_text(t)}}]

\* The estimated ingredient count of each input text
CountTable == [t \in IngredientTexts |-> ScanTable[t].ingredient_count]

\* The tier of each input text under each hint
TierTable ==
    [t \in IngredientTexts |->
        [h \in ApiGroups |-> decide_nova_group(ScanTable[t], h, 0)]]

\* C29: with the markers present in the text and the hint held fixed, a
\* text with a larger ingredient count is given a tier at least as high:
\* the tier classify_nova returns never goes down when ingredients are
\* added.
C29_TierMonotoneInCount ==
    IsNova =>
        \A longer \in IngredientTexts :
            (/\ MarkerTable[longer] = MarkerTable[call.ingredients_text]
             /\ CountTable[longer] >= result.ingredient_count)
            => TierTable[longer][call.nova_group_api] >= result.nova_group
---------------------------------------------------------------------------
(* Properties of the comparison *)

IsCompare == call.fn = "compare_products"

\* The analysed products the call compares: those asked for whose analysis
\* has its four parts
Compared ==
    SelectSeq(analyzed_products,
              LAMBDA item : /\ item.name \in call.product_names
                            /\ "health_score" \in DOMAIN item.data)

\* The health score of the i-th product compared, in tenths
ScoreOf(i) == Compared[i].data.health_score.health_score

\* C30: when compare_products compares at least two analysed products and
\* returns, the winner it names is one of the products compared, its health
\* score is the maximum among them, it is the first of those with that
\* score, and the score named is its score; for every score in [0, 100].
C30_WinnerHasMaximumScore ==
    (IsCompare /\ result.do = "return" /\ Len(Compared) >= 2) =>
        /\ "winner" \in DOMAIN result.value
        /\ \E i \in 1..Len(Compared) :
             /\ result.value.winner = Spell[Compared[i].name]
             /\ result.value.winner_score = ScoreOf(i)
             /\ \A j \in 1..Len(Compared) : ScoreOf(j) <= ScoreOf(i)
             /\ \A j \in 1..(i - 1) : ScoreOf(j) < ScoreOf(i)

====
